---------------------------- MODULE Spec2Model ----------------------------
(***************************************************************************)
(* Model of the schedule free-time finder (find_free_times.py and          *)
(* find_times.py).                                                         *)
(*                                                                         *)
(* A time label ("9:00 AM", "09:00 AM") is a record of what the characters *)
(* say: hw is the number of characters of the hour field (1 for "9",       *)
(* 2 for "09" and "10"), hour and min are the numbers written, period is   *)
(* "AM" or "PM".  Two labels are the same Python string exactly when the   *)
(* records are equal.                                                      *)
(***************************************************************************)
EXTENDS Integers, Sequences, FiniteSets, TLC

VARIABLES
    pc,               \* position of the driver of the specification at hand
    time_str,         \* SpecTime: the label handed to time_to_minutes
    minutes,          \* SpecTime: time_to_minutes(time_str)
    round_trip,       \* SpecTime: minutes_to_time(minutes)
    min_gap_minutes,  \* the min_gap_minutes argument of the run
    classes,          \* SpecGaps: the class list of the schedule
    gaps_by_day,      \* SpecGaps: find_gaps_for_schedule(classes, min_gap_minutes)
    all_gaps,         \* Spec: process_schedules' all_gaps list
    common_gaps,      \* Spec: find_common_free_times(all_gaps, min_gap_minutes)
    text_regions,     \* SpecGrid, SpecExtract: the fragments extract_text returned
    colored_blocks,   \* SpecExtract: the blocks detect_colored_blocks returned
    grid,             \* SpecGrid, SpecExtract: identify_grid_structure(text_regions)
    split_blocks,     \* SpecExtract: the blocks split_overlapping_blocks returned
    files,            \* SpecCache, SpecCacheRace: the image and its cache file
    clock,            \* SpecCache, SpecCacheRace: the file system's time
    calls,            \* SpecCache, SpecCacheRace: the get_cached_classes calls
    probe_y,          \* SpecInterpolate: the argument of interpolate_time
    probe_time,       \* SpecInterpolate: interpolate_time(probe_y, sorted_times)
    temp_files,       \* SpecUpload: the files under /tmp, by path
    uploads           \* SpecUpload: the upload_schedule requests in progress

vars == <<pc, time_str, minutes, round_trip, min_gap_minutes, classes,
          gaps_by_day, all_gaps, common_gaps, text_regions, colored_blocks, grid,
          split_blocks, files, clock, calls, probe_y, probe_time, temp_files,
          uploads>>

timeVars == <<time_str, minutes, round_trip>>
gapVars == <<classes, gaps_by_day>>
commonVars == <<all_gaps, common_gaps>>
extractVars == <<text_regions, colored_blocks, grid, split_blocks>>
cacheVars == <<files, clock, calls>>
interpolateVars == <<probe_y, probe_time>>
uploadVars == <<temp_files, uploads>>

(***************************************************************************)
(* Time labels                                                             *)
(***************************************************************************)

\* The label with the hour written as Python's f"{hour}" writes it.
Label(hour, min, period) ==
    [hw |-> IF hour < 10 THEN 1 ELSE 2, hour |-> hour, min |-> min, period |-> period]

\* The label with the hour written as "%I" / ":02d" write it.
Label02(hour, min, period) ==
    [hw |-> 2, hour |-> hour, min |-> min, period |-> period]

\* What "%I:%M %p" accepts: an hour 1..12 of one or two digits, a minute 0..59.
StrptimeAccepts(s) ==
    /\ s.hour \in 1..12
    /\ s.min \in 0..59
    /\ s.hw \in {1, 2}
    /\ (s.hour >= 10 => s.hw = 2)

\* parse_time: the datetime of the label, as minutes after 1900-01-01 00:00.
parse_time(s) ==
    LET hour24 == IF s.period = "AM"
                  THEN (IF s.hour = 12 THEN 0 ELSE s.hour)
                  ELSE (IF s.hour = 12 THEN 12 ELSE s.hour + 12)
    IN  hour24 * 60 + s.min

time_to_minutes(s) ==
    LET dt == parse_time(s)
    IN  ((dt \div 60) % 24) * 60 + (dt % 60)

minutes_to_time(mins0) ==
    LET hours == mins0 \div 60
        mins == mins0 % 60
        period == IF hours < 12 THEN "AM" ELSE "PM"
        h12 == IF hours = 0 THEN 12 ELSE IF hours > 12 THEN hours - 12 ELSE hours
    IN  Label02(h12, mins, period)

\* datetime.strftime('%I:%M %p') of a datetime given in minutes after 1900-01-01.
strftime(dt) ==
    LET hours == (dt \div 60) % 24
        h12 == IF hours = 0 THEN 12 ELSE IF hours > 12 THEN hours - 12 ELSE hours
    IN  Label02(h12, dt % 60, IF hours < 12 THEN "AM" ELSE "PM")

add_minutes_to_time(s, mins) == strftime(parse_time(s) + mins)


(***************************************************************************)
(* find_gaps_for_schedule                                                  *)
(***************************************************************************)

days == <<"Mon", "Tue", "Wed", "Thu", "Fri">>

DaySet == {days[i] : i \in 1..Len(days)}

\* The literals '08:00 AM' and '08:00 PM' of find_gaps_for_schedule.
DayStart == Label02(8, 0, "AM")

DayEnd == Label02(8, 0, "PM")

\* The literal 720 of the no-class branch.
FullDayMinutes == 720

Gap(start, end, duration) ==
    [start |-> start, end |-> end, duration_minutes |-> duration]

\* list.sort(key=...) is stable: a class goes behind every class already placed
\* whose start is not later.
InsertByStart(sorted, c) ==
    LET k == time_to_minutes(c.start_time)
        before == {i \in 1..Len(sorted) : time_to_minutes(sorted[i].start_time) <= k}
        n == Cardinality(before)
    IN  SubSeq(sorted, 1, n) \o <<c>> \o SubSeq(sorted, n + 1, Len(sorted))

RECURSIVE SortByStart(_)
SortByStart(cs) ==
    IF cs = <<>> THEN <<>>
    ELSE InsertByStart(SortByStart(SubSeq(cs, 1, Len(cs) - 1)), cs[Len(cs)])

\* The loop "for i in range(len(day_classes) - 1)" from index i on.
RECURSIVE BetweenGaps(_, _, _)
BetweenGaps(day_classes, i, min_gap) ==
    IF i > Len(day_classes) - 1 THEN <<>>
    ELSE LET current_end == time_to_minutes(day_classes[i].end_time)
             next_start == time_to_minutes(day_classes[i + 1].start_time)
             gap_duration == next_start - current_end
         IN  (IF gap_duration >= min_gap
              THEN <<Gap(day_classes[i].end_time, day_classes[i + 1].start_time,
                         gap_duration)>>
              ELSE <<>>)
             \o BetweenGaps(day_classes, i + 1, min_gap)

\* DayGaps with the day's classes taken in input order.
DayGaps_Unsorted(cls, day, min_gap) ==
    LET InDay(c) == c.day = day
        day_classes == SelectSeq(cls, InDay)
        n == Len(day_classes)
    IN  IF day_classes = <<>>
        THEN <<Gap(DayStart, DayEnd, FullDayMinutes)>>
        ELSE LET first_class_start == time_to_minutes(day_classes[1].start_time)
                 morning_gap == first_class_start - time_to_minutes(DayStart)
                 last_class_end == time_to_minutes(day_classes[n].end_time)
                 evening_gap == time_to_minutes(DayEnd) - last_class_end
             IN  (IF morning_gap >= min_gap
                  THEN <<Gap(DayStart, day_classes[1].start_time, morning_gap)>>
                  ELSE <<>>)
                 \o BetweenGaps(day_classes, 1, min_gap)
                 \o (IF evening_gap >= min_gap
                     THEN <<Gap(day_classes[n].end_time, DayEnd, evening_gap)>>
                     ELSE <<>>)

\* The body of the loop over days, for one day.
DayGaps(cls, day, min_gap) ==
    LET InDay(c) == c.day = day
        unsorted == SelectSeq(cls, InDay)
    IN  IF unsorted = <<>>
        THEN <<Gap(DayStart, DayEnd, FullDayMinutes)>>
        ELSE LET day_classes == SortByStart(unsorted)
                 n == Len(day_classes)
                 first_class_start == time_to_minutes(day_classes[1].start_time)
                 morning_gap == first_class_start - time_to_minutes(DayStart)
                 last_class_end == time_to_minutes(day_classes[n].end_time)
                 evening_gap == time_to_minutes(DayEnd) - last_class_end
             IN  (IF morning_gap >= min_gap
                  THEN <<Gap(DayStart, day_classes[1].start_time, morning_gap)>>
                  ELSE <<>>)
                 \o BetweenGaps(day_classes, 1, min_gap)
                 \o (IF evening_gap >= min_gap
                     THEN <<Gap(day_classes[n].end_time, DayEnd, evening_gap)>>
                     ELSE <<>>)

find_gaps_for_schedule(cls, min_gap) ==
    [day \in DaySet |-> DayGaps(cls, day, min_gap)]

(***************************************************************************)
(* find_common_free_times                                                  *)
(***************************************************************************)

\* dict.get(day, [])
GetDay(schedule_gaps, day) ==
    IF day \in DOMAIN schedule_gaps THEN schedule_gaps[day] ELSE <<>>

\* Overlap with the overlap starting where gap1 starts.
Overlap_FromFirstStart(gap1, gap2, min_gap) ==
    LET start1 == time_to_minutes(gap1.start)
        end1 == time_to_minutes(gap1.end)
        end2 == time_to_minutes(gap2.end)
        overlap_start == start1
        overlap_end == IF end1 <= end2 THEN end1 ELSE end2
        overlap_duration == overlap_end - overlap_start
    IN  IF overlap_duration >= min_gap
        THEN <<Gap(minutes_to_time(overlap_start), minutes_to_time(overlap_end),
                   overlap_duration)>>
        ELSE <<>>

\* Overlap with a strict threshold.
Overlap_StrictThreshold(gap1, gap2, min_gap) ==
    LET start1 == time_to_minutes(gap1.start)
        end1 == time_to_minutes(gap1.end)
        start2 == time_to_minutes(gap2.start)
        end2 == time_to_minutes(gap2.end)
        overlap_start == IF start1 >= start2 THEN start1 ELSE start2
        overlap_end == IF end1 <= end2 THEN end1 ELSE end2
        overlap_duration == overlap_end - overlap_start
    IN  IF overlap_duration > min_gap
        THEN <<Gap(minutes_to_time(overlap_start), minutes_to_time(overlap_end),
                   overlap_duration)>>
        ELSE <<>>

\* The body of the two nested loops for one pair (gap1, gap2).
Overlap(gap1, gap2, min_gap) ==
    LET start1 == time_to_minutes(gap1.start)
        end1 == time_to_minutes(gap1.end)
        start2 == time_to_minutes(gap2.start)
        end2 == time_to_minutes(gap2.end)
        overlap_start == IF start1 >= start2 THEN start1 ELSE start2
        overlap_end == IF end1 <= end2 THEN end1 ELSE end2
        overlap_duration == overlap_end - overlap_start
    IN  IF overlap_duration >= min_gap
        THEN <<Gap(minutes_to_time(overlap_start), minutes_to_time(overlap_end),
                   overlap_duration)>>
        ELSE <<>>

\* The nested loops leaving gap1 at its first long enough overlap.
RECURSIVE IntersectFrom_FirstMatch(_, _, _, _, _)
IntersectFrom_FirstMatch(common_day_gaps, other_gaps, i, j, min_gap) ==
    IF i > Len(common_day_gaps) THEN <<>>
    ELSE IF j > Len(other_gaps)
         THEN IntersectFrom_FirstMatch(common_day_gaps, other_gaps, i + 1, 1, min_gap)
         ELSE LET found == Overlap(common_day_gaps[i], other_gaps[j], min_gap)
              IN  IF found # <<>>
                  THEN found \o IntersectFrom_FirstMatch(common_day_gaps, other_gaps,
                                                         i + 1, 1, min_gap)
                  ELSE IntersectFrom_FirstMatch(common_day_gaps, other_gaps, i, j + 1,
                                                min_gap)

\* "for gap1 in common_day_gaps: for gap2 in other_gaps", from pair (i, j) on.
RECURSIVE IntersectFrom(_, _, _, _, _)
IntersectFrom(common_day_gaps, other_gaps, i, j, min_gap) ==
    IF i > Len(common_day_gaps) THEN <<>>
    ELSE IF j > Len(other_gaps)
         THEN IntersectFrom(common_day_gaps, other_gaps, i + 1, 1, min_gap)
         ELSE Overlap(common_day_gaps[i], other_gaps[j], min_gap)
              \o IntersectFrom(common_day_gaps, other_gaps, i, j + 1, min_gap)

\* "for other_gaps in day_gaps_all_schedules[1:]", from schedule k on.
RECURSIVE FoldSchedules(_, _, _, _)
FoldSchedules(common_day_gaps, day_gaps_all_schedules, k, min_gap) ==
    IF k > Len(day_gaps_all_schedules) THEN common_day_gaps
    ELSE FoldSchedules(
             IntersectFrom(common_day_gaps, day_gaps_all_schedules[k], 1, 1, min_gap),
             day_gaps_all_schedules, k + 1, min_gap)

\* find_common_free_times with no schedules read as "everybody is free".
find_common_free_times_AllFree(schedules_gaps, min_gap) ==
    [day \in DaySet |->
        IF schedules_gaps = <<>>
        THEN <<Gap(DayStart, DayEnd, FullDayMinutes)>>
        ELSE LET day_gaps_all_schedules ==
                     [k \in 1..Len(schedules_gaps) |-> GetDay(schedules_gaps[k], day)]
             IN  FoldSchedules(day_gaps_all_schedules[1], day_gaps_all_schedules, 2,
                               min_gap)]

\* find_common_free_times with the fold taking in the first schedule again.
find_common_free_times_FoldFromFirst(schedules_gaps, min_gap) ==
    IF schedules_gaps = <<>>
    THEN [day \in {} |-> <<>>]
    ELSE [day \in DaySet |->
            LET day_gaps_all_schedules ==
                    [k \in 1..Len(schedules_gaps) |-> GetDay(schedules_gaps[k], day)]
            IN  FoldSchedules(day_gaps_all_schedules[1], day_gaps_all_schedules, 1,
                              min_gap)]

\* The result is a dict: a function whose domain is the set of keys.
find_common_free_times(schedules_gaps, min_gap) ==
    IF schedules_gaps = <<>>
    THEN [day \in {} |-> <<>>]
    ELSE [day \in DaySet |->
            LET day_gaps_all_schedules ==
                    [k \in 1..Len(schedules_gaps) |-> GetDay(schedules_gaps[k], day)]
            IN  FoldSchedules(day_gaps_all_schedules[1], day_gaps_all_schedules, 2,
                              min_gap)]

(***************************************************************************)
(* Pixel positions.  A detected position is an integer; a synthesized one  *)
(* and pixels-per-hour are quotients, kept as reduced fractions <<n, d>>   *)
(* with d > 0 (the source computes them in floating point).                *)
(***************************************************************************)

Abs(i) == IF i < 0 THEN -i ELSE i

RECURSIVE GCD(_, _)
GCD(a, b) == IF b = 0 THEN a ELSE GCD(b, a % b)

Frac(n, d) ==
    LET g == GCD(Abs(n), Abs(d))
        sgn == IF d < 0 THEN -1 ELSE 1
    IN  <<sgn * (n \div g), sgn * (d \div g)>>

FracInt(i) == <<i, 1>>

FracAdd(a, b) == Frac(a[1] * b[2] + b[1] * a[2], a[2] * b[2])

FracSub(a, b) == Frac(a[1] * b[2] - b[1] * a[2], a[2] * b[2])

FracMul(a, b) == Frac(a[1] * b[1], a[2] * b[2])

FracDiv(a, b) == Frac(a[1] * b[2], a[2] * b[1])

FracLess(a, b) == a[1] * b[2] < b[1] * a[2]

FracLeq(a, b) == a[1] * b[2] <= b[1] * a[2]

\* int(x): truncation towards zero.
FracTrunc(a) == IF a[1] >= 0 THEN a[1] \div a[2] ELSE -((-a[1]) \div a[2])

(***************************************************************************)
(* Text fragments.  The text of a fragment is kept as what the patterns of *)
(* the source find in it: kind "time" with the groups of time_pattern      *)
(* (digit strings as sequences of digits, a missing group as <<>>), kind   *)
(* "day" with the weekday it contains, kind "course" with the letters and  *)
(* digits of a course code, kind "word" with any other text, lower-cased.  *)
(***************************************************************************)

TimeText(hour_str, minutes_str, period) ==
    [kind |-> "time", hour_str |-> hour_str, minutes_str |-> minutes_str,
     period |-> period, word |-> "", number |-> <<>>]

DayText(day) ==
    [kind |-> "day", hour_str |-> <<>>, minutes_str |-> <<>>, period |-> "", word |-> day,
     number |-> <<>>]

\* Four capital letters and four digits, as in "MATH 1505".
CourseText(letters, number) ==
    [kind |-> "course", hour_str |-> <<>>, minutes_str |-> <<>>, period |-> "",
     word |-> letters, number |-> number]

WordText(word) ==
    [kind |-> "word", hour_str |-> <<>>, minutes_str |-> <<>>, period |-> "",
     word |-> word, number |-> <<>>]

\* int() of a digit string.
RECURSIVE IntOf(_)
IntOf(digits) ==
    IF digits = <<>> THEN 0
    ELSE 10 * IntOf(SubSeq(digits, 1, Len(digits) - 1)) + digits[Len(digits)]

\* str.upper() of the period group.
Upper(period) == IF period \in {"am", "AM"} THEN "AM" ELSE "PM"

\* (x1 + x2) // 2 and (y1 + y2) // 2 of a bbox <<x1, y1, x2, y2>>.
CenterX(bbox) == (bbox[1] + bbox[3]) \div 2

CenterY(bbox) == (bbox[2] + bbox[4]) \div 2

(***************************************************************************)
(* identify_grid_structure, fill_missing_hours, calculate_pixels_per_hour  *)
(* An ordered dict is the sequence of its items [label, y] / [day, x] in   *)
(* the dict's order.                                                       *)
(***************************************************************************)

Labels(items) == {items[i].label : i \in 1..Len(items)}

\* sorted(items, key=position): stable.
InsertByY(sorted, item) ==
    LET before == {i \in 1..Len(sorted) : FracLeq(sorted[i].y, item.y)}
        n == Cardinality(before)
    IN  SubSeq(sorted, 1, n) \o <<item>> \o SubSeq(sorted, n + 1, Len(sorted))

RECURSIVE SortByY(_)
SortByY(items) ==
    IF items = <<>> THEN <<>>
    ELSE InsertByY(SortByY(SubSeq(items, 1, Len(items) - 1)), items[Len(items)])

\* The time branch of the loop over text_regions, from region i on.
RECURSIVE TimeRows(_, _, _)
TimeRows(regions, i, time_rows) ==
    IF i > Len(regions) THEN time_rows
    ELSE LET region == regions[i]
             text == region.text
             center_y == CenterY(region.bbox)
             hour_str == text.hour_str
             minutes_str == IF text.minutes_str # <<>> THEN text.minutes_str ELSE <<0, 0>>
             hour == IntOf(hour_str)
             time_label == Label(hour, IntOf(minutes_str), Upper(text.period))
         IN  IF /\ text.kind = "time"
                /\ hour_str # <<0>>
                /\ hour <= 12
                /\ time_label \notin Labels(time_rows)
             THEN TimeRows(regions, i + 1,
                           Append(time_rows, [label |-> time_label, y |-> FracInt(center_y)]))
             ELSE TimeRows(regions, i + 1, time_rows)

\* The sum of the per-pair pixels-per-hour and their number, from pair i on.
RECURSIVE PixelDiffs(_, _)
PixelDiffs(sorted_times, i) ==
    IF i > Len(sorted_times) - 1 THEN <<FracInt(0), 0>>
    ELSE LET rest == PixelDiffs(sorted_times, i + 1)
             dt1 == parse_time(sorted_times[i].label)
             dt2 == parse_time(sorted_times[i + 1].label)
             \* hour_diff = (dt2 - dt1) minutes / 60
             minute_diff == dt2 - dt1
         IN  IF minute_diff > 0
             THEN <<FracAdd(FracDiv(FracSub(sorted_times[i + 1].y, sorted_times[i].y),
                                    Frac(minute_diff, 60)),
                            rest[1]),
                    rest[2] + 1>>
             ELSE rest

calculate_pixels_per_hour(sorted_times) ==
    IF Len(sorted_times) < 2 THEN FracInt(0)
    ELSE LET pixel_diffs == PixelDiffs(sorted_times, 1)
         IN  IF pixel_diffs[2] > 0
             THEN FracDiv(pixel_diffs[1], FracInt(pixel_diffs[2]))
             ELSE FracInt(0)

\* "for _ in range(int(hour_diff))", from step k on (current_time = dt1 + k hours).
RECURSIVE FillSteps(_, _, _, _, _, _, _)
FillSteps(filled_times, dt1, y1, dt2, avg_pixels_per_hour, steps, k) ==
    IF k > steps THEN filled_times
    ELSE LET current_time == dt1 + 60 * k
             current_y == FracAdd(y1, FracMul(FracInt(k), avg_pixels_per_hour))
             time_label == strftime(current_time)
         IN  FillSteps(
                 IF current_time < dt2 /\ time_label \notin Labels(filled_times)
                 THEN Append(filled_times, [label |-> time_label, y |-> current_y])
                 ELSE filled_times,
                 dt1, y1, dt2, avg_pixels_per_hour, steps, k + 1)

\* "for i in range(len(sorted_times) - 1)", from pair i on.
RECURSIVE FillPairs(_, _, _, _)
FillPairs(filled_times, sorted_times, avg_pixels_per_hour, i) ==
    IF i > Len(sorted_times) - 1 THEN filled_times
    ELSE LET dt1 == parse_time(sorted_times[i].label)
             dt2 == parse_time(sorted_times[i + 1].label)
             minute_diff == dt2 - dt1
         IN  FillPairs(
                 \* hour_diff > 1.5; int(hour_diff) steps
                 IF minute_diff > 90
                 THEN FillSteps(filled_times, dt1, sorted_times[i].y, dt2,
                                avg_pixels_per_hour, minute_diff \div 60, 1)
                 ELSE filled_times,
                 sorted_times, avg_pixels_per_hour, i + 1)

fill_missing_hours(time_rows) ==
    IF Len(time_rows) < 2 THEN time_rows
    ELSE LET sorted_times == SortByY(time_rows)
             avg_pixels_per_hour == calculate_pixels_per_hour(sorted_times)
         IN  IF avg_pixels_per_hour = FracInt(0) THEN time_rows
             ELSE SortByY(FillPairs(time_rows, sorted_times, avg_pixels_per_hour, 1))

\* The day branch of the loop over text_regions: the last fragment naming a day
\* sets its column; the dict keeps the order in which the days first appeared.
RECURSIVE DayColumns(_, _, _)
DayColumns(regions, i, day_columns) ==
    IF i > Len(regions) THEN day_columns
    ELSE LET region == regions[i]
             center_x == CenterX(region.bbox)
             day == region.text.word
             known == {k \in 1..Len(day_columns) : day_columns[k].day = day}
         IN  IF region.text.kind = "day"
             THEN DayColumns(regions, i + 1,
                      IF known = {}
                      THEN Append(day_columns, [day |-> day, x |-> center_x])
                      ELSE [k \in 1..Len(day_columns) |->
                              IF k \in known THEN [day |-> day, x |-> center_x]
                              ELSE day_columns[k]])
             ELSE DayColumns(regions, i + 1, day_columns)

InsertByX(sorted, item) ==
    LET before == {i \in 1..Len(sorted) : sorted[i].x <= item.x}
        n == Cardinality(before)
    IN  SubSeq(sorted, 1, n) \o <<item>> \o SubSeq(sorted, n + 1, Len(sorted))

RECURSIVE SortByX(_)
SortByX(items) ==
    IF items = <<>> THEN <<>>
    ELSE InsertByX(SortByX(SubSeq(items, 1, Len(items) - 1)), items[Len(items)])

\* The time_rows dict before interpolation, sorted by position.
DetectedTimes(regions) == SortByY(TimeRows(regions, 1, <<>>))

\* strptime raises ValueError in fill_missing_hours when two or more labels were
\* detected and one of them is no "%I:%M %p" time.
GridRaises(regions) ==
    LET time_rows == DetectedTimes(regions)
    IN  /\ Len(time_rows) >= 2
        /\ \E i \in 1..Len(time_rows) : ~StrptimeAccepts(time_rows[i].label)

identify_grid_structure(regions) ==
    [days |-> SortByX(DayColumns(regions, 1, <<>>)),
     times |-> fill_missing_hours(DetectedTimes(regions))]

(***************************************************************************)
(* split_overlapping_blocks and find_class_type                            *)
(***************************************************************************)

\* The pattern without its negative lookahead: r'[A-Z]{4}\s*\d{4}'.
CoursePatternFinds_NoLookahead(text) == text.kind = "course"

\* course_pattern.search(text): r'(?!ORIE)[A-Z]{4}\s*\d{4}'.
CoursePatternFinds(text) == text.kind = "course" /\ text.word # "ORIE"

TypeThreshold == 100

\* find_class_type, from region i on.
RECURSIVE find_class_type_from(_, _, _, _)
find_class_type_from(course_x, course_y, regions, i) ==
    IF i > Len(regions) THEN "Lecture"
    ELSE LET region == regions[i]
             text == region.text
             region_x == CenterX(region.bbox)
             region_y == CenterY(region.bbox)
             near == /\ Abs(region_x - course_x) < TypeThreshold
                     /\ Abs(region_y - course_y) < TypeThreshold
         IN  IF near /\ text.kind = "word" /\ text.word = "lecture" THEN "Lecture"
             ELSE IF near /\ text.kind = "word" /\ text.word = "lab" THEN "Laboratory"
             ELSE IF near /\ text.kind = "word" /\ text.word = "tutorial" THEN "Tutorial"
             ELSE find_class_type_from(course_x, course_y, regions, i + 1)

find_class_type(course_x, course_y, regions) ==
    find_class_type_from(course_x, course_y, regions, 1)

Block(x1, y1, x2, y2, was_split) ==
    [x1 |-> x1, y1 |-> y1, x2 |-> x2, y2 |-> y2,
     center_x |-> x1 + ((x2 - x1) \div 2), center_y |-> y1 + ((y2 - y1) \div 2),
     was_split |-> was_split]

\* A block split_overlapping_blocks builds: it has no was_split key.
NewBlock(block, y1, y2) ==
    [x1 |-> block.x1, y1 |-> y1, x2 |-> block.x2, y2 |-> y2,
     center_x |-> block.center_x, center_y |-> (y1 + y2) \div 2, was_split |-> FALSE]

\* The course fragments whose center lies in the block, in text_regions order.
CoursesInBlock(regions, block) ==
    LET Inside(region) ==
            /\ CoursePatternFinds(region.text)
            /\ block.x1 <= CenterX(region.bbox) /\ CenterX(region.bbox) <= block.x2
            /\ block.y1 <= CenterY(region.bbox) /\ CenterY(region.bbox) <= block.y2
        inside == SelectSeq(regions, Inside)
    IN  [k \in 1..Len(inside) |->
            [text |-> inside[k].text,
             center_y |-> CenterY(inside[k].bbox),
             y1 |-> inside[k].bbox[2],
             y2 |-> inside[k].bbox[4],
             text_bbox |-> inside[k].bbox,
             center_x |-> CenterX(inside[k].bbox)]]

\* courses_in_block.sort(key=center_y): stable.
InsertByCenterY(sorted, course) ==
    LET before == {i \in 1..Len(sorted) : sorted[i].center_y <= course.center_y}
        n == Cardinality(before)
    IN  SubSeq(sorted, 1, n) \o <<course>> \o SubSeq(sorted, n + 1, Len(sorted))

RECURSIVE SortByCenterY(_)
SortByCenterY(courses) ==
    IF courses = <<>> THEN <<>>
    ELSE InsertByCenterY(SortByCenterY(SubSeq(courses, 1, Len(courses) - 1)),
                         courses[Len(courses)])

DefaultPixelsPerHour == 108

\* The was_split branch with the block placed below the text's center.
TrimBlock_BelowText(block, course, regions, sorted_times) ==
    LET class_type == find_class_type(
                          (course.text_bbox[1] + course.text_bbox[3]) \div 2,
                          (course.text_bbox[2] + course.text_bbox[4]) \div 2,
                          regions)
        pixels_per_hour == IF sorted_times # <<>>
                           THEN calculate_pixels_per_hour(sorted_times)
                           ELSE FracInt(DefaultPixelsPerHour)
        expected_duration_hours == IF class_type = "Lecture" THEN Frac(3, 2) ELSE FracInt(1)
        expected_height == FracTrunc(FracMul(pixels_per_hour, expected_duration_hours))
        text_center_y == (course.y1 + course.y2) \div 2
        unclamped_y1 == text_center_y + FracTrunc(Frac(expected_height * 2, 10))
        unclamped_y2 == unclamped_y1 + expected_height
        trimmed_y1 == IF block.y1 >= unclamped_y1 THEN block.y1 ELSE unclamped_y1
        trimmed_y2 == IF block.y2 <= unclamped_y2 THEN block.y2 ELSE unclamped_y2
    IN  NewBlock(block, trimmed_y1, trimmed_y2)

\* The was_split branch without the clamp to the block's bottom edge.
TrimBlock_NoBottomClamp(block, course, regions, sorted_times) ==
    LET class_type == find_class_type(
                          (course.text_bbox[1] + course.text_bbox[3]) \div 2,
                          (course.text_bbox[2] + course.text_bbox[4]) \div 2,
                          regions)
        pixels_per_hour == IF sorted_times # <<>>
                           THEN calculate_pixels_per_hour(sorted_times)
                           ELSE FracInt(DefaultPixelsPerHour)
        expected_duration_hours == IF class_type = "Lecture" THEN Frac(3, 2) ELSE FracInt(1)
        expected_height == FracTrunc(FracMul(pixels_per_hour, expected_duration_hours))
        text_center_y == (course.y1 + course.y2) \div 2
        unclamped_y1 == text_center_y - FracTrunc(Frac(expected_height * 2, 10))
        trimmed_y1 == IF block.y1 >= unclamped_y1 THEN block.y1 ELSE unclamped_y1
    IN  NewBlock(block, trimmed_y1, unclamped_y1 + expected_height)

\* The was_split branch: the block trimmed around its one course.
TrimBlock(block, course, regions, sorted_times) ==
    LET class_type == find_class_type(
                          (course.text_bbox[1] + course.text_bbox[3]) \div 2,
                          (course.text_bbox[2] + course.text_bbox[4]) \div 2,
                          regions)
        pixels_per_hour == IF sorted_times # <<>>
                           THEN calculate_pixels_per_hour(sorted_times)
                           ELSE FracInt(DefaultPixelsPerHour)
        is_lecture == class_type = "Lecture"
        expected_duration_hours == IF is_lecture THEN Frac(3, 2) ELSE FracInt(1)
        expected_height == FracTrunc(FracMul(pixels_per_hour, expected_duration_hours))
        text_center_y == (course.y1 + course.y2) \div 2
        \* int(expected_height * 0.2)
        unclamped_y1 == text_center_y - FracTrunc(Frac(expected_height * 2, 10))
        unclamped_y2 == unclamped_y1 + expected_height
        trimmed_y1 == IF block.y1 >= unclamped_y1 THEN block.y1 ELSE unclamped_y1
        trimmed_y2 == IF block.y2 <= unclamped_y2 THEN block.y2 ELSE unclamped_y2
    IN  NewBlock(block, trimmed_y1, trimmed_y2)

\* The same-name branch without the sort of courses_in_block.
SplitBands_Unsorted(block, courses) ==
    LET n == Len(courses)
    IN  [i \in 1..n |->
            IF i = 1
            THEN NewBlock(block, block.y1, (courses[i].y2 + courses[i + 1].y1) \div 2)
            ELSE IF i = n
            THEN NewBlock(block, (courses[i - 1].y2 + courses[i].y1) \div 2, block.y2)
            ELSE NewBlock(block, (courses[i - 1].y2 + courses[i].y1) \div 2,
                                 (courses[i].y2 + courses[i + 1].y1) \div 2)]

\* The same-name branch: one sub-band per course, in center_y order.
SplitBands(block, courses) ==
    LET sorted == SortByCenterY(courses)
        n == Len(sorted)
    IN  [i \in 1..n |->
            IF i = 1
            THEN NewBlock(block, block.y1,
                          IF i + 1 <= n THEN (sorted[i].y2 + sorted[i + 1].y1) \div 2
                          ELSE block.y2)
            ELSE IF i = n
            THEN NewBlock(block, (sorted[i - 1].y2 + sorted[i].y1) \div 2, block.y2)
            ELSE NewBlock(block, (sorted[i - 1].y2 + sorted[i].y1) \div 2,
                                 (sorted[i].y2 + sorted[i + 1].y1) \div 2)]

\* The body of the loop over colored_blocks: what one block contributes.
SplitBlock(block, regions, sorted_times) ==
    LET courses_in_block == CoursesInBlock(regions, block)
        course_names == {courses_in_block[k].text : k \in 1..Len(courses_in_block)}
    IN  IF block.was_split /\ Len(courses_in_block) = 1
        THEN <<TrimBlock(block, courses_in_block[1], regions, sorted_times)>>
        ELSE IF Len(courses_in_block) > 1 /\ Cardinality(course_names) = 1
        THEN SplitBands(block, courses_in_block)
        ELSE <<block>>

RECURSIVE split_blocks_from(_, _, _, _)
split_blocks_from(regions, blocks, sorted_times, i) ==
    IF i > Len(blocks) THEN <<>>
    ELSE SplitBlock(blocks[i], regions, sorted_times)
         \o split_blocks_from(regions, blocks, sorted_times, i + 1)

split_overlapping_blocks(regions, blocks, sorted_times) ==
    split_blocks_from(regions, blocks, sorted_times, 1)

(***************************************************************************)
(* extract_classes, find_closest_day and interpolate_time                  *)
(***************************************************************************)

DayThreshold == 150

\* find_closest_day: the first day column, in the order of the days dict, less
\* than threshold pixels from center_x; "None" when there is none.
RECURSIVE find_closest_day_from(_, _, _)
find_closest_day_from(center_x, day_columns, i) ==
    IF i > Len(day_columns) THEN "None"
    ELSE IF Abs(center_x - day_columns[i].x) < DayThreshold THEN day_columns[i].day
    ELSE find_closest_day_from(center_x, day_columns, i + 1)

find_closest_day(center_x, day_columns) == find_closest_day_from(center_x, day_columns, 1)

\* The indices i of "for i in range(len(sorted_times) - 1)" with y1 <= y_position <= y2.
Bracketing(y_position, sorted_times) ==
    {i \in 1..(Len(sorted_times) - 1) :
        /\ FracLeq(sorted_times[i].y, FracInt(y_position))
        /\ FracLeq(FracInt(y_position), sorted_times[i + 1].y)}

\* The rounding of interpolate_time: the datetime, in minutes after 1900-01-01,
\* moved to :00, :30 or :00 of the next hour.
RoundToAnchor(interpolated_time) ==
    LET total == FracTrunc(interpolated_time)
        minute == total % 60
        hour_start == total - minute
    IN  IF minute < 15 THEN hour_start
        ELSE IF minute < 45 THEN hour_start + 30
        ELSE hour_start + 60

\* sorted_times[0][1] of an empty list raises IndexError.
InterpolateRaises(sorted_times) == sorted_times = <<>>

\* interpolate_time for a non-empty sorted_times.
interpolate_time(y_position, sorted_times) ==
    LET bracketing == Bracketing(y_position, sorted_times)
    IN  IF bracketing # {}
        THEN LET i == CHOOSE i \in bracketing : \A j \in bracketing : i <= j
                 y1 == sorted_times[i].y
                 y2 == sorted_times[i + 1].y
                 fraction == IF y2 # y1
                             THEN FracDiv(FracSub(FracInt(y_position), y1), FracSub(y2, y1))
                             ELSE FracInt(0)
                 dt1 == parse_time(sorted_times[i].label)
                 dt2 == parse_time(sorted_times[i + 1].label)
                 time_diff == dt2 - dt1
                 minutes_to_add == FracMul(fraction, FracInt(time_diff))
             IN  strftime(RoundToAnchor(FracAdd(FracInt(dt1), minutes_to_add)))
        ELSE IF FracLess(FracInt(y_position), sorted_times[1].y)
        THEN sorted_times[1].label
        ELSE sorted_times[Len(sorted_times)].label

ConfidenceThreshold == 40

\* The first block of split_blocks that contains the point, 0 when none does.
ContainingBlock(center_x, center_y, blocks) ==
    LET containing == {k \in 1..Len(blocks) :
                          /\ blocks[k].x1 <= center_x /\ center_x <= blocks[k].x2
                          /\ blocks[k].y1 <= center_y /\ center_y <= blocks[k].y2}
    IN  IF containing = {} THEN 0
        ELSE CHOOSE k \in containing : \A j \in containing : k <= j

\* The durations with "actual_hours <= 1.0" as the first test.
BlockDuration_InclusiveHour(block_height, pixels_per_hour, class_type) ==
    IF FracLess(FracInt(0), pixels_per_hour)
    THEN LET actual_hours == FracDiv(FracInt(block_height), pixels_per_hour)
         IN  IF FracLeq(actual_hours, FracInt(1)) THEN 60
             ELSE IF FracLess(actual_hours, Frac(16, 10)) THEN 90
             ELSE IF FracLess(actual_hours, Frac(25, 10)) THEN 120
             ELSE 180
    ELSE IF class_type = "Lecture" THEN 90 ELSE 60

\* The standard duration of a block of block_height pixels.
BlockDuration(block_height, pixels_per_hour, class_type) ==
    IF FracLess(FracInt(0), pixels_per_hour)
    THEN LET actual_hours == FracDiv(FracInt(block_height), pixels_per_hour)
         IN  IF FracLess(actual_hours, FracInt(1)) THEN 60
             ELSE IF FracLess(actual_hours, Frac(16, 10)) THEN 90
             ELSE IF FracLess(actual_hours, Frac(25, 10)) THEN 120
             ELSE 180
    ELSE IF class_type = "Lecture" THEN 90 ELSE 60

ClassRecord(course, day, start_time, end_time, class_type) ==
    [course |-> course, day |-> day, start_time |-> start_time, end_time |-> end_time,
     type |-> class_type]

\* Does the loop of extract_classes look at this fragment?
IsCourseRegion(region) ==
    CoursePatternFinds(region.text) /\ region.confidence > ConfidenceThreshold

\* The body of the loop of extract_classes for one course fragment: the exception
\* it raises ("" when none) and the entry it appends (<<>> when none).
ExtractOne(region, regions, grid_days, sorted_times, blocks) ==
    LET center_x == CenterX(region.bbox)
        center_y == CenterY(region.bbox)
        day == find_closest_day(center_x, grid_days)
        class_type == find_class_type(center_x, center_y, regions)
        k == ContainingBlock(center_x, center_y, blocks)
        duration == IF k # 0
                    THEN BlockDuration(blocks[k].y2 - blocks[k].y1,
                                       calculate_pixels_per_hour(sorted_times), class_type)
                    ELSE IF class_type = "Lecture" THEN 90 ELSE 60
        y_position == IF k # 0 THEN blocks[k].y1 ELSE region.bbox[2]
    IN  IF InterpolateRaises(sorted_times)
        THEN [raised |-> "IndexError", entry |-> <<>>]
        ELSE LET start_time == interpolate_time(y_position, sorted_times)
             IN  IF ~StrptimeAccepts(start_time)
                 THEN [raised |-> "ValueError", entry |-> <<>>]
                 ELSE [raised |-> "",
                       entry |-> IF day # "None"
                                 THEN <<ClassRecord(region.text, day, start_time,
                                            add_minutes_to_time(start_time, duration),
                                            class_type)>>
                                 ELSE <<>>]

\* "for region in text_regions", from region i on with the classes found so far.
RECURSIVE ExtractFrom(_, _, _, _, _, _)
ExtractFrom(regions, grid_days, sorted_times, blocks, i, found) ==
    IF i > Len(regions) THEN [raised |-> "", classes |-> found]
    ELSE IF ~IsCourseRegion(regions[i])
    THEN ExtractFrom(regions, grid_days, sorted_times, blocks, i + 1, found)
    ELSE LET one == ExtractOne(regions[i], regions, grid_days, sorted_times, blocks)
         IN  IF one.raised # "" THEN [raised |-> one.raised, classes |-> found]
             ELSE ExtractFrom(regions, grid_days, sorted_times, blocks, i + 1,
                              found \o one.entry)

\* extract_classes: the exception it ends with ("" when it returns) and the list.
extract_classes(regions, a_grid, blocks) ==
    LET sorted_times == SortByY(a_grid.times)
    IN  ExtractFrom(regions, a_grid.days, sorted_times,
                    split_overlapping_blocks(regions, blocks, sorted_times), 1, <<>>)

(***************************************************************************)
(* Inputs.  A class entry is what extract_classes emits: start_time is a   *)
(* grid label as identify_grid_structure writes it or a strftime label,    *)
(* end_time is add_minutes_to_time(start_time, duration).  Only the fields *)
(* find_gaps_for_schedule reads are kept.                                  *)
(***************************************************************************)

MaxClasses == 2

MaxSchedules == 2

MinGaps == {0, 30, 31, 60, 721}

Periods == {"AM", "PM"}

\* Every label "%I:%M %p" accepts that is on a 30-minute boundary.
TimeStrings ==
    {s \in [hw : {1, 2}, hour : 1..12, min : {0, 30}, period : Periods] :
        StrptimeAccepts(s)}

ClassEntry(day, start_time, duration) ==
    [day |-> day, start_time |-> start_time,
     end_time |-> add_minutes_to_time(start_time, duration)]

StartTimes ==
    {Label(8, 0, "AM"), Label02(9, 0, "AM"), Label(10, 30, "AM"), Label02(11, 0, "AM")}

GapClasses ==
    {ClassEntry(d, s, du) : d \in {"Mon", "Tue"}, s \in StartTimes, du \in {60, 90}}
        \cup {ClassEntry("Mon", Label(8, 0, "AM"), 180)}

CommonClasses ==
    {ClassEntry("Mon", s, 60) : s \in StartTimes}
        \cup {ClassEntry("Mon", Label02(9, 0, "AM"), 90)}

SeqsUpTo(S, n) == UNION {[1..k -> S] : k \in 0..n}

NoGaps == [day \in {} |-> <<>>]

(***************************************************************************)
(* SpecTime: a label goes through time_to_minutes and back through         *)
(* minutes_to_time.                                                        *)
(***************************************************************************)

IdleTime == /\ time_str = Label02(12, 0, "AM") /\ minutes = 0 /\ round_trip = Label02(12, 0, "AM")

IdleGaps == /\ classes = <<>> /\ gaps_by_day = NoGaps

IdleCommon == /\ all_gaps = <<>> /\ common_gaps = NoGaps

NoGrid == [days |-> <<>>, times |-> <<>>]

IdleExtract ==
    /\ text_regions = <<>>
    /\ colored_blocks = <<>>
    /\ grid = NoGrid
    /\ split_blocks = <<>>

IdleCache ==
    /\ files = <<>>
    /\ clock = 0
    /\ calls = <<>>

IdleInterpolate ==
    /\ probe_y = 0
    /\ probe_time = Label02(12, 0, "AM")

IdleUpload ==
    /\ temp_files = <<>>
    /\ uploads = <<>>

InitTime ==
    /\ pc = "start"
    /\ time_str \in TimeStrings
    /\ minutes = 0
    /\ round_trip = Label02(12, 0, "AM")
    /\ min_gap_minutes = 30
    /\ IdleGaps
    /\ IdleCommon
    /\ IdleExtract
    /\ IdleCache
    /\ IdleInterpolate
    /\ IdleUpload

TimeToMinutes ==
    /\ pc = "start"
    /\ minutes' = time_to_minutes(time_str)
    /\ pc' = "parsed"
    /\ UNCHANGED <<cacheVars, interpolateVars, uploadVars, time_str, round_trip, min_gap_minutes, gapVars, commonVars, extractVars>>

MinutesToTime ==
    /\ pc = "parsed"
    /\ round_trip' = minutes_to_time(minutes)
    /\ pc' = "done"
    /\ UNCHANGED <<cacheVars, interpolateVars, uploadVars, time_str, minutes, min_gap_minutes, gapVars, commonVars, extractVars>>

NextTime == TimeToMinutes \/ MinutesToTime

SpecTime == InitTime /\ [][NextTime]_vars

(***************************************************************************)
(* SpecGaps: one call of find_gaps_for_schedule.                           *)
(***************************************************************************)

InitGaps ==
    /\ pc = "start"
    /\ classes \in SeqsUpTo(GapClasses, MaxClasses)
    /\ min_gap_minutes \in MinGaps
    /\ gaps_by_day = NoGaps
    /\ IdleTime
    /\ IdleCommon
    /\ IdleExtract
    /\ IdleCache
    /\ IdleInterpolate
    /\ IdleUpload

FindGaps ==
    /\ pc = "start"
    /\ gaps_by_day' = find_gaps_for_schedule(classes, min_gap_minutes)
    /\ pc' = "done"
    /\ UNCHANGED <<cacheVars, interpolateVars, uploadVars, classes, min_gap_minutes, timeVars, commonVars, extractVars>>

NextGaps == FindGaps

SpecGaps == InitGaps /\ [][NextGaps]_vars

(***************************************************************************)
(* Spec: process_schedules.  Each schedule's classes go through            *)
(* find_gaps_for_schedule into all_gaps; find_common_free_times then runs  *)
(* on all_gaps.                                                            *)
(***************************************************************************)

Init ==
    /\ pc = "schedules"
    /\ min_gap_minutes \in MinGaps
    /\ all_gaps = <<>>
    /\ common_gaps = NoGaps
    /\ IdleTime
    /\ IdleGaps
    /\ IdleExtract
    /\ IdleCache
    /\ IdleInterpolate
    /\ IdleUpload

ProcessSchedule ==
    /\ pc = "schedules"
    /\ Len(all_gaps) < MaxSchedules
    /\ \E cls \in SeqsUpTo(CommonClasses, MaxClasses) :
          all_gaps' = Append(all_gaps, find_gaps_for_schedule(cls, min_gap_minutes))
    /\ UNCHANGED <<cacheVars, interpolateVars, uploadVars, pc, min_gap_minutes, common_gaps, timeVars, gapVars, extractVars>>

FindCommon ==
    /\ pc = "schedules"
    /\ common_gaps' = find_common_free_times(all_gaps, min_gap_minutes)
    /\ pc' = "done"
    /\ UNCHANGED <<cacheVars, interpolateVars, uploadVars, min_gap_minutes, all_gaps, timeVars, gapVars, extractVars>>

Next == ProcessSchedule \/ FindCommon

Spec == Init /\ [][Next]_vars

(***************************************************************************)
(* SpecFold: find_common_free_times folding over up to MaxFold schedules.  *)
(***************************************************************************)
MaxFold == 3

FoldClasses ==
    {<<>>} \cup {<<class>> : class \in CommonClasses}
           \cup {<<ClassEntry("Mon", Label(8, 0, "AM"), 60),
                   ClassEntry("Mon", Label02(11, 0, "AM"), 60)>>}

ProcessFold ==
    /\ pc = "schedules"
    /\ Len(all_gaps) < MaxFold
    /\ \E cls \in FoldClasses :
          all_gaps' = Append(all_gaps, find_gaps_for_schedule(cls, min_gap_minutes))
    /\ UNCHANGED <<cacheVars, interpolateVars, uploadVars, pc, min_gap_minutes, common_gaps, timeVars, gapVars, extractVars>>

NextFold == ProcessFold \/ FindCommon

SpecFold == Init /\ [][NextFold]_vars

(***************************************************************************)
(* SpecGrid: identify_grid_structure on the time markers OCR may return.   *)
(* SpecExtract: the extraction pass of get_cached_classes on one image:    *)
(* identify_grid_structure, then split_overlapping_blocks as the first     *)
(* step of extract_classes.                                                *)
(***************************************************************************)

MaxMarkers == 3

MaxBlocks == 1

Region(text, center_x, center_y, half_width) ==
    [text |-> text,
     bbox |-> <<center_x - half_width, center_y - 10, center_x + half_width, center_y + 10>>,
     confidence |-> 90]

\* A time marker in the left margin of the image.
Marker(hour_str, minutes_str, period, center_y) ==
    Region(TimeText(hour_str, minutes_str, period), 30, center_y, 20)

GridMarkers ==
    {Marker(<<9>>, <<>>, "am", 100), Marker(<<9>>, <<>>, "am", 130),
     Marker(<<1, 0>>, <<>>, "am", 200), Marker(<<1, 0>>, <<3, 0>>, "am", 250),
     Marker(<<1, 1>>, <<>>, "am", 300), Marker(<<1, 2>>, <<>>, "pm", 400),
     Marker(<<1>>, <<>>, "pm", 510), Marker(<<0>>, <<>>, "am", 50),
     Marker(<<1, 3>>, <<>>, "pm", 520), Marker(<<0, 0>>, <<>>, "am", 60),
     Marker(<<9>>, <<7, 5>>, "am", 150),
     Region(DayText("Mon"), 200, 40, 30), Region(DayText("Mon"), 420, 40, 30),
     Region(DayText("Tue"), 310, 40, 30)}

\* The markers of the images of SpecExtract: none, one, grids of 100, 102.5
\* (after interpolation) and 250/3 pixels per hour, and one whose first two
\* markers are out of order.
ExtractMarkers ==
    {<<>>,
     <<Marker(<<9>>, <<>>, "am", 100)>>,
     <<Marker(<<9>>, <<>>, "am", 100), Marker(<<1, 0>>, <<>>, "am", 200)>>,
     <<Marker(<<9>>, <<>>, "am", 100), Marker(<<1, 2>>, <<>>, "pm", 400),
       Marker(<<1>>, <<>>, "pm", 510)>>,
     <<Marker(<<9>>, <<>>, "am", 100), Marker(<<1, 2>>, <<>>, "pm", 350)>>,
     <<Marker(<<1, 0>>, <<>>, "am", 100), Marker(<<9>>, <<>>, "am", 200),
       Marker(<<1, 1>>, <<>>, "am", 300)>>,
     <<Marker(<<9>>, <<1, 5>>, "am", 150), Marker(<<1, 1>>, <<>>, "am", 325)>>}

\* The day headers of the images of SpecExtract: none, Monday above the course
\* column, Tuesday above it with Monday 140 pixels to its right, and Monday 150
\* pixels to its right.
ExtractHeaders ==
    {<<>>,
     <<Region(DayText("Mon"), 200, 40, 30)>>,
     <<Region(DayText("Mon"), 340, 40, 30), Region(DayText("Tue"), 200, 40, 30)>>,
     <<Region(DayText("Mon"), 350, 40, 30)>>}

\* A fragment the recognizer is not sure of: confidence 0.4.
Unsure(region) == [region EXCEPT !.confidence = ConfidenceThreshold]

\* Course codes in the Monday column, and the words printed under a code.
CourseRegions ==
    {Region(CourseText("MATH", <<1, 5, 0, 5>>), 200, 120, 40),
     Region(CourseText("MATH", <<1, 5, 0, 5>>), 200, 260, 40),
     Region(CourseText("COMP", <<1, 5, 0, 5>>), 200, 260, 40),
     Region(CourseText("ORIE", <<3, 3, 0, 0>>), 200, 120, 40),
     Unsure(Region(CourseText("MATH", <<1, 5, 0, 5>>), 200, 260, 40))}

WordRegions ==
    {Region(WordText("tutorial"), 200, 145, 40), Region(WordText("lab"), 200, 285, 40)}

\* Three course codes stacked in one block, the lowest recognized second.
StackedCourses(letters) ==
    <<Region(CourseText("MATH", <<1, 5, 0, 5>>), 200, 120, 40),
      Region(CourseText(letters, <<1, 5, 0, 5>>), 200, 260, 40),
      Region(CourseText("MATH", <<1, 5, 0, 5>>), 200, 190, 40)>>

\* A fragment whose box OCR reports from y1 to y2.
Tall(region, y1, y2) ==
    [region EXCEPT !.bbox = <<region.bbox[1], y1, region.bbox[3], y2>>]

\* Two fragments of the same text, the lower one's box reaching above the upper
\* one's and above the top of the blocks.
OverlappingCourses ==
    <<Region(CourseText("MATH", <<1, 5, 0, 5>>), 200, 120, 40),
      Tall(Region(CourseText("MATH", <<1, 5, 0, 5>>), 200, 130, 40), 60, 200)>>

FragmentLists ==
    {courses \o words :
        courses \in SeqsUpTo(CourseRegions, 2), words \in SeqsUpTo(WordRegions, 1)}
    \cup {StackedCourses("MATH"), StackedCourses("COMP"), OverlappingCourses}

\* Blocks around the course column, and one in the next column.
Blocks ==
    {Block(100, 100, 310, y2, was_split) : y2 \in {300, 400}, was_split \in BOOLEAN}
    \cup {Block(310, 100, 520, 300, TRUE)}

InitGrid ==
    /\ pc = "grid"
    /\ text_regions \in SeqsUpTo(GridMarkers, MaxMarkers)
    /\ colored_blocks = <<>>
    /\ grid = NoGrid
    /\ split_blocks = <<>>
    /\ min_gap_minutes = 30
    /\ IdleTime
    /\ IdleGaps
    /\ IdleCommon
    /\ IdleCache
    /\ IdleInterpolate
    /\ IdleUpload

IdentifyGrid ==
    /\ pc = "grid"
    /\ IF GridRaises(text_regions)
       THEN pc' = "ValueError" /\ grid' = grid
       ELSE pc' = "split" /\ grid' = identify_grid_structure(text_regions)
    /\ UNCHANGED <<cacheVars, interpolateVars, uploadVars, text_regions, colored_blocks, split_blocks, min_gap_minutes,
                   timeVars, gapVars, commonVars>>

NextGrid == IdentifyGrid

SpecGrid == InitGrid /\ [][NextGrid]_vars

InitExtract ==
    /\ pc = "grid"
    /\ \E headers \in ExtractHeaders, markers \in ExtractMarkers,
          fragments \in FragmentLists :
          text_regions = headers \o markers \o fragments
    /\ colored_blocks \in SeqsUpTo(Blocks, MaxBlocks)
    /\ grid = NoGrid
    /\ split_blocks = <<>>
    /\ min_gap_minutes = 30
    /\ IdleTime
    /\ IdleGaps
    /\ IdleCommon
    /\ IdleCache
    /\ IdleInterpolate
    /\ IdleUpload

\* extract_classes up to its call of split_overlapping_blocks.
SplitBlocks ==
    /\ pc = "split"
    /\ split_blocks' = split_overlapping_blocks(text_regions, colored_blocks,
                                                SortByY(grid.times))
    /\ pc' = "extract"
    /\ UNCHANGED <<cacheVars, interpolateVars, uploadVars, text_regions, colored_blocks, grid, min_gap_minutes,
                   timeVars, gapVars, commonVars>>

\* The loop of extract_classes over the fragments.
ExtractEntries ==
    /\ pc = "extract"
    /\ LET result == extract_classes(text_regions, grid, colored_blocks)
       IN  /\ classes' = result.classes
           /\ pc' = IF result.raised = "" THEN "done" ELSE result.raised
    /\ UNCHANGED <<cacheVars, interpolateVars, uploadVars, gaps_by_day, min_gap_minutes, timeVars, commonVars, extractVars>>

NextExtract == IdentifyGrid \/ SplitBlocks \/ ExtractEntries

SpecExtract == InitExtract /\ [][NextExtract]_vars

(***************************************************************************)
(* get_cached_classes.  SpecCache: one caller at a time, with the image    *)
(* being replaced and time passing between and during the calls.           *)
(* SpecCacheRace: two callers of the same image, each statement that       *)
(* touches the file system a step of its own.                              *)
(* A path is the sequence of its parts; a file's content is the version of *)
(* the image, the pickled class list of a version, or nothing.             *)
(***************************************************************************)

MaxClock == 3

MaxVersion == 2

Callers == {1, 2}

SchedulePath == <<"schedule", ".png">>

\* schedule_path.replace('.png', '_cache.pkl')
CachePath(schedule_path) ==
    [i \in 1..Len(schedule_path) |->
        IF schedule_path[i] = ".png" THEN "_cache.pkl" ELSE schedule_path[i]]

NoFile == [exists |-> FALSE, mtime |-> 0, content |-> [kind |-> "nothing", version |-> 0]]

File(mtime, kind, version) ==
    [exists |-> TRUE, mtime |-> mtime, content |-> [kind |-> kind, version |-> version]]

\* What the extraction pass returns for the image of a version.
ClassesOf(version) == [kind |-> "classes", version |-> version]

NoClasses == [kind |-> "nothing", version |-> 0]

Call(state, use_cache, extracted, result) ==
    [pc |-> state, schedule_path |-> SchedulePath, use_cache |-> use_cache,
     classes |-> extracted, result |-> result]

\* The test with >= in place of >.
CacheIsNewer_OrEqual(cache_mtime, image_mtime) == cache_mtime >= image_mtime

\* "if cache_mtime > image_mtime"
CacheIsNewer(cache_mtime, image_mtime) == cache_mtime > image_mtime

InitFiles ==
    /\ files = (SchedulePath :> File(1, "image", 1)) @@ (CachePath(SchedulePath) :> NoFile)
    /\ clock = 1
    /\ pc = "cache"
    /\ min_gap_minutes = 30
    /\ IdleTime
    /\ IdleGaps
    /\ IdleCommon
    /\ IdleExtract
    /\ IdleInterpolate
    /\ IdleUpload

InitCache ==
    /\ InitFiles
    /\ calls = [p \in Callers |-> Call(IF p = 1 THEN "idle" ELSE "off", FALSE,
                                       NoClasses, NoClasses)]

InitCacheRace ==
    /\ InitFiles
    /\ calls = [p \in Callers |-> Call("idle", FALSE, NoClasses, NoClasses)]

notCache == <<pc, min_gap_minutes, timeVars, gapVars, commonVars, extractVars,
              interpolateVars, uploadVars>>

\* A caller enters get_cached_classes(schedule_path, use_cache).
Enter(p) ==
    /\ calls[p].pc \in {"idle", "returned"}
    /\ \E use_cache \in BOOLEAN :
          calls' = [calls EXCEPT ![p] = Call("check", use_cache, NoClasses, NoClasses)]
    /\ UNCHANGED <<files, clock, notCache>>

\* "if use_cache and os.path.exists(cache_path)" and the comparison of the mtimes.
CheckCache(p) ==
    /\ calls[p].pc = "check"
    /\ LET cache == files[CachePath(calls[p].schedule_path)]
           image == files[calls[p].schedule_path]
       IN  calls' = [calls EXCEPT ![p].pc =
                        IF /\ calls[p].use_cache
                           /\ cache.exists
                           /\ CacheIsNewer(cache.mtime, image.mtime)
                        THEN "load" ELSE "extract"]
    /\ UNCHANGED <<files, clock, notCache>>

\* "return pickle.load(f)": an empty file raises EOFError.
LoadCache(p) ==
    /\ calls[p].pc = "load"
    /\ LET cache == files[CachePath(calls[p].schedule_path)]
       IN  calls' = IF cache.content.kind = "classes"
                    THEN [calls EXCEPT ![p].pc = "returned", ![p].result = cache.content]
                    ELSE [calls EXCEPT ![p].pc = "EOFError"]
    /\ UNCHANGED <<files, clock, notCache>>

\* The extraction pass on the image; without use_cache the call returns its result.
ExtractImage(p) ==
    /\ calls[p].pc = "extract"
    /\ LET image == files[calls[p].schedule_path].content
           extracted == ClassesOf(image.version)
       IN  calls' = IF image.kind # "image"
                    \* cv2.imread returns None and cv2.cvtColor raises
                    THEN [calls EXCEPT ![p].pc = "cv2.error"]
                    ELSE IF calls[p].use_cache
                    THEN [calls EXCEPT ![p].pc = "open", ![p].classes = extracted]
                    ELSE [calls EXCEPT ![p].pc = "returned", ![p].classes = extracted,
                                       ![p].result = extracted]
    /\ UNCHANGED <<files, clock, notCache>>

\* "with open(cache_path, 'wb') as f": the file is created or truncated.
OpenCache(p) ==
    /\ calls[p].pc = "open"
    /\ files' = [files EXCEPT ![CachePath(calls[p].schedule_path)] =
                    File(clock, "nothing", 0)]
    /\ calls' = [calls EXCEPT ![p].pc = "dump"]
    /\ UNCHANGED <<clock, notCache>>

\* "pickle.dump(classes, f)", the close of the file and "return classes".
DumpCache(p) ==
    /\ calls[p].pc = "dump"
    /\ files' = [files EXCEPT ![CachePath(calls[p].schedule_path)] =
                    File(clock, "classes", calls[p].classes.version)]
    /\ calls' = [calls EXCEPT ![p].pc = "returned", ![p].result = calls[p].classes]
    /\ UNCHANGED <<clock, notCache>>

\* The image is replaced by a new one.
ReplaceImage ==
    /\ files[SchedulePath].content.version < MaxVersion
    /\ files' = [files EXCEPT ![SchedulePath] =
                    File(clock, "image", files[SchedulePath].content.version + 1)]
    /\ UNCHANGED <<clock, calls, notCache>>

Tick ==
    /\ clock < MaxClock
    /\ clock' = clock + 1
    /\ UNCHANGED <<files, calls, notCache>>

NextCache ==
    \/ \E p \in Callers : Enter(p)
    \/ \E p \in Callers : CheckCache(p)
    \/ \E p \in Callers : LoadCache(p)
    \/ \E p \in Callers : ExtractImage(p)
    \/ \E p \in Callers : OpenCache(p)
    \/ \E p \in Callers : DumpCache(p)
    \/ ReplaceImage
    \/ Tick

SpecCache == InitCache /\ [][NextCache]_vars

SpecCacheRace == InitCacheRace /\ [][NextCache]_vars

(***************************************************************************)
(* SpecCachePaths: get_cached_classes called one call at a time on images  *)
(* whose names end in ".png" or not.                                       *)
(***************************************************************************)

SchedulePaths == {SchedulePath, <<"schedule", ".jpg">>}

CachePaths == {CachePath(path) : path \in SchedulePaths}

InitCachePaths ==
    /\ files = [path \in SchedulePaths \cup CachePaths |->
                    IF path \in SchedulePaths THEN File(1, "image", 1) ELSE NoFile]
    /\ calls = [p \in Callers |-> Call(IF p = 1 THEN "idle" ELSE "off", FALSE,
                                       NoClasses, NoClasses)]
    /\ clock = 1
    /\ pc = "cache"
    /\ min_gap_minutes = 30
    /\ IdleTime
    /\ IdleGaps
    /\ IdleCommon
    /\ IdleExtract
    /\ IdleInterpolate
    /\ IdleUpload

\* A caller enters get_cached_classes(schedule_path, use_cache).
EnterPath(p) ==
    /\ calls[p].pc \in {"idle", "returned"}
    /\ \E schedule_path \in SchedulePaths, use_cache \in BOOLEAN :
          calls' = [calls EXCEPT ![p] =
                       [Call("check", use_cache, NoClasses, NoClasses)
                           EXCEPT !.schedule_path = schedule_path]]
    /\ UNCHANGED <<files, clock, notCache>>

NextCachePaths ==
    \/ \E p \in Callers : EnterPath(p)
    \/ \E p \in Callers : CheckCache(p)
    \/ \E p \in Callers : LoadCache(p)
    \/ \E p \in Callers : ExtractImage(p)
    \/ \E p \in Callers : OpenCache(p)
    \/ \E p \in Callers : DumpCache(p)
    \/ Tick

SpecCachePaths == InitCachePaths /\ [][NextCachePaths]_vars

(***************************************************************************)
(* SpecInterpolate: interpolate_time at every position of the image, on    *)
(* the grid identify_grid_structure infers from the markers.               *)
(***************************************************************************)

MaxY == 530

YPositions == 80..MaxY

InterpolateMarkers == ExtractMarkers \ {<<>>}

InitInterpolate ==
    /\ pc = "grid"
    /\ text_regions \in InterpolateMarkers
    /\ probe_y \in YPositions
    /\ probe_time = Label02(12, 0, "AM")
    /\ colored_blocks = <<>>
    /\ grid = NoGrid
    /\ split_blocks = <<>>
    /\ min_gap_minutes = 30
    /\ IdleTime
    /\ IdleGaps
    /\ IdleCommon
    /\ IdleCache
    /\ IdleUpload

Interpolate ==
    /\ pc = "split"
    /\ probe_time' = interpolate_time(probe_y, SortByY(grid.times))
    /\ pc' = "done"
    /\ UNCHANGED <<probe_y, uploadVars, cacheVars, extractVars, min_gap_minutes, timeVars,
                   gapVars, commonVars>>

NextInterpolate == IdentifyGrid \/ Interpolate

SpecInterpolate == InitInterpolate /\ [][NextInterpolate]_vars

(***************************************************************************)
(* SpecUpload: two upload_schedule requests served by threads of one       *)
(* process.  Request p uploads image p; a file's content is the image that *)
(* was saved to it, 0 when the file does not exist.                        *)
(***************************************************************************)

Uploaders == {1, 2}

InviteCodes == {"K3X9QA", "P7M2ZD"}

UserNames == {"Anonymous", "Sam"}

\* f"/tmp/schedule_{invite_code}_{user_name}.png"
TempPath(invite_code, user_name) == <<"/tmp/schedule_", invite_code, "_", user_name, ".png">>

TempPaths == {TempPath(c, u) : c \in InviteCodes, u \in UserNames}

Upload(state, invite_code, user_name) ==
    [pc |-> state, temp_path |-> TempPath(invite_code, user_name),
     blocks_from |-> 0, text_from |-> 0, failed |-> FALSE]

InitUpload ==
    /\ temp_files = [path \in TempPaths |-> 0]
    /\ uploads \in {[p \in Uploaders |-> Upload("save", codes[p], names[p])] :
                       codes \in [Uploaders -> InviteCodes],
                       names \in [Uploaders -> UserNames]}
    /\ pc = "upload"
    /\ min_gap_minutes = 30
    /\ IdleTime
    /\ IdleGaps
    /\ IdleCommon
    /\ IdleExtract
    /\ IdleCache
    /\ IdleInterpolate

notUpload == <<pc, min_gap_minutes, timeVars, gapVars, commonVars, extractVars,
               cacheVars, interpolateVars>>

\* file.save(temp_path)
SaveUpload(p) ==
    /\ uploads[p].pc = "save"
    /\ temp_files' = [temp_files EXCEPT ![uploads[p].temp_path] = p]
    /\ uploads' = [uploads EXCEPT ![p].pc = "detect"]
    /\ UNCHANGED notUpload

\* detect_colored_blocks(temp_path): cv2.imread gives None for a missing file
\* and cv2.cvtColor raises.
DetectBlocks(p) ==
    /\ uploads[p].pc = "detect"
    /\ uploads' = IF temp_files[uploads[p].temp_path] = 0
                  THEN [uploads EXCEPT ![p].pc = "finally", ![p].failed = TRUE]
                  ELSE [uploads EXCEPT ![p].pc = "ocr",
                                       ![p].blocks_from = temp_files[uploads[p].temp_path]]
    /\ UNCHANGED <<temp_files, notUpload>>

\* extract_text(temp_path): the recognizer raises for a missing file.
ExtractText(p) ==
    /\ uploads[p].pc = "ocr"
    /\ uploads' = IF temp_files[uploads[p].temp_path] = 0
                  THEN [uploads EXCEPT ![p].pc = "finally", ![p].failed = TRUE]
                  ELSE [uploads EXCEPT ![p].pc = "insert",
                                       ![p].text_from = temp_files[uploads[p].temp_path]]
    /\ UNCHANGED <<temp_files, notUpload>>

\* identify_grid_structure, extract_classes and the insert of the schedule row.
InsertSchedule(p) ==
    /\ uploads[p].pc = "insert"
    /\ uploads' = [uploads EXCEPT ![p].pc = "finally"]
    /\ UNCHANGED <<temp_files, notUpload>>

\* finally: "if os.path.exists(temp_path): os.remove(temp_path)"
RemoveTemp(p) ==
    /\ uploads[p].pc = "finally"
    /\ temp_files' = [temp_files EXCEPT ![uploads[p].temp_path] = 0]
    /\ uploads' = [uploads EXCEPT ![p].pc = "done"]
    /\ UNCHANGED notUpload

NextUpload ==
    \/ \E p \in Uploaders : SaveUpload(p)
    \/ \E p \in Uploaders : DetectBlocks(p)
    \/ \E p \in Uploaders : ExtractText(p)
    \/ \E p \in Uploaders : InsertSchedule(p)
    \/ \E p \in Uploaders : RemoveTemp(p)

SpecUpload == InitUpload /\ [][NextUpload]_vars

(***************************************************************************)
(* Properties of the time conversions (SpecTime)                           *)
(***************************************************************************)

\* C8: minutes_to_time(time_to_minutes(x)) is the string x itself, for every
\* label on a 30-minute boundary that "%I:%M %p" accepts, written "09:00 AM"
\* or "9:00 AM".
C8_RoundTripIsIdentity ==
    pc = "done" /\ StrptimeAccepts(time_str) => round_trip = time_str

(***************************************************************************)
(* Properties of find_gaps_for_schedule (SpecGaps)                         *)
(***************************************************************************)

Mins(label) == time_to_minutes(label)

GapsAscending(gaps) ==
    \A i \in 1..Len(gaps) - 1 : Mins(gaps[i].start) <= Mins(gaps[i + 1].start)

GapsDisjoint(gaps) ==
    \A i, j \in 1..Len(gaps) : i < j => Mins(gaps[i].end) <= Mins(gaps[j].start)

GapsLongEnough(gaps, min_gap) ==
    \A i \in 1..Len(gaps) : gaps[i].duration_minutes >= min_gap

GapsInWindow(gaps) ==
    \A i \in 1..Len(gaps) :
        /\ 8 * 60 <= Mins(gaps[i].start)
        /\ Mins(gaps[i].start) <= Mins(gaps[i].end)
        /\ Mins(gaps[i].end) <= 20 * 60

\* C1: every weekday's gap list is pairwise non-overlapping, ascending by start,
\* has every duration >= min_gap_minutes and lies within [08:00 AM, 08:00 PM].
C1_GapsWellFormed ==
    pc = "done" =>
        \A day \in DaySet :
            /\ day \in DOMAIN gaps_by_day
            /\ GapsAscending(gaps_by_day[day])
            /\ GapsDisjoint(gaps_by_day[day])
            /\ GapsLongEnough(gaps_by_day[day], min_gap_minutes)
            /\ GapsInWindow(gaps_by_day[day])

\* The day's entries in start order, ties in input order, by counting
\* predecessors: the entry at input position i is at rank RankOf(i).
DayIndices(cls, day) == {i \in 1..Len(cls) : cls[i].day = day}

RankOf(cls, day, i) ==
    1 + Cardinality({j \in DayIndices(cls, day) :
            \/ Mins(cls[j].start_time) < Mins(cls[i].start_time)
            \/ Mins(cls[j].start_time) = Mins(cls[i].start_time) /\ j < i})

ByStart(cls, day) ==
    [r \in 1..Cardinality(DayIndices(cls, day)) |->
        cls[CHOOSE i \in DayIndices(cls, day) : RankOf(cls, day, i) = r]]

\* Morning, inter-class and evening candidates, in that order.
Candidates(cls, day) ==
    LET sorted == ByStart(cls, day)
        n == Len(sorted)
    IN  [k \in 1..n + 1 |->
            LET from == IF k = 1 THEN [hw |-> 2, hour |-> 8, min |-> 0, period |-> "AM"]
                        ELSE sorted[k - 1].end_time
                to == IF k = n + 1 THEN [hw |-> 2, hour |-> 8, min |-> 0, period |-> "PM"]
                      ELSE sorted[k].start_time
            IN  [start |-> from, end |-> to, duration_minutes |-> Mins(to) - Mins(from)]]

ExpectedDayGaps(cls, day, min_gap) ==
    IF DayIndices(cls, day) = {}
    THEN <<[start |-> [hw |-> 2, hour |-> 8, min |-> 0, period |-> "AM"],
            end |-> [hw |-> 2, hour |-> 8, min |-> 0, period |-> "PM"],
            duration_minutes |-> 720]>>
    ELSE LET Kept(g) == g.duration_minutes >= min_gap
         IN  SelectSeq(Candidates(cls, day), Kept)

\* C5: a day without class has the single gap 08:00 AM-08:00 PM of 720 minutes;
\* a day with classes has, in this order and nothing else, the morning, inter-class
\* and evening candidates whose duration (end minus start) is >= min_gap_minutes.
C5_GapsAreTheCandidates ==
    pc = "done" =>
        /\ DOMAIN gaps_by_day = DaySet
        /\ \A day \in DaySet :
              gaps_by_day[day] = ExpectedDayGaps(classes, day, min_gap_minutes)

\* Two Monday classes given latest first, with a morning, an inter-class and an
\* evening gap, and a day without class.
C5_Witness ==
    /\ pc = "done"
    /\ Len(classes) = 2
    /\ classes[1].day = "Mon" /\ classes[2].day = "Mon"
    /\ Mins(classes[2].start_time) < Mins(classes[1].start_time)
    /\ Len(gaps_by_day["Mon"]) = 3
    /\ gaps_by_day["Tue"][1].duration_minutes = 720

(***************************************************************************)
(* Properties of find_common_free_times (Spec)                             *)
(***************************************************************************)

\* The same intervals and durations, label spelling aside.
SameIntervals(gaps1, gaps2) ==
    /\ Len(gaps1) = Len(gaps2)
    /\ \A i \in 1..Len(gaps1) :
          /\ Mins(gaps1[i].start) = Mins(gaps2[i].start)
          /\ Mins(gaps1[i].end) = Mins(gaps2[i].end)
          /\ gaps1[i].duration_minutes = gaps2[i].duration_minutes

\* C2: with two schedules, the result for [A, B] is the result for [B, A]: the
\* same gaps in the same order on every weekday.
C2_Commutative ==
    pc = "done" /\ Len(all_gaps) = 2 =>
        common_gaps = find_common_free_times(<<all_gaps[2], all_gaps[1]>>,
                                             min_gap_minutes)

\* Two different schedules with several Monday gaps each and several common ones.
C2_Witness ==
    /\ pc = "done"
    /\ Len(all_gaps) = 2
    /\ min_gap_minutes = 30
    /\ all_gaps[1] # all_gaps[2]
    /\ Len(all_gaps[1]["Mon"]) >= 2
    /\ Len(all_gaps[2]["Mon"]) >= 2
    /\ Len(common_gaps["Mon"]) >= 2
    /\ ~SameIntervals(common_gaps["Mon"], all_gaps[1]["Mon"])
    /\ ~SameIntervals(common_gaps["Mon"], all_gaps[2]["Mon"])

\* C3: intersecting a schedule's gaps G with themselves gives, on every weekday,
\* exactly the gap list of G: the same intervals and durations, none extra, none
\* missing.
C3_SelfIntersection ==
    pc = "done" /\ Len(all_gaps) = 2 /\ all_gaps[1] = all_gaps[2] =>
        \A day \in DaySet :
            /\ day \in DOMAIN common_gaps
            /\ SameIntervals(common_gaps[day], all_gaps[1][day])

MaxOf(a, b) == IF a >= b THEN a ELSE b

MinOf(a, b) == IF a <= b THEN a ELSE b

\* The number of pairs (i, j) of gaps whose overlap lasts at least min_gap.
LongOverlaps(gaps1, gaps2, min_gap) ==
    {p \in (1..Len(gaps1)) \X (1..Len(gaps2)) :
        MinOf(Mins(gaps1[p[1]].end), Mins(gaps2[p[2]].end))
          - MaxOf(Mins(gaps1[p[1]].start), Mins(gaps2[p[2]].start)) >= min_gap}

\* C4: with two schedules, the overlap [max(start1, start2), min(end1, end2)] of
\* a pair of gaps is in the result if and only if it lasts at least
\* min_gap_minutes, and the result holds nothing else; the boundary is inclusive.
C4_OverlapKeptIffLongEnough ==
    pc = "done" /\ Len(all_gaps) = 2 =>
        \A day \in DaySet :
            LET gaps1 == all_gaps[1][day]
                gaps2 == all_gaps[2][day]
                result == common_gaps[day]
            IN  /\ \A i \in 1..Len(gaps1), j \in 1..Len(gaps2) :
                      LET from == MaxOf(Mins(gaps1[i].start), Mins(gaps2[j].start))
                          to == MinOf(Mins(gaps1[i].end), Mins(gaps2[j].end))
                      IN  (to - from >= min_gap_minutes) <=>
                          (\E k \in 1..Len(result) :
                              /\ Mins(result[k].start) = from
                              /\ Mins(result[k].end) = to
                              /\ result[k].duration_minutes = to - from)
                /\ Len(result) = Cardinality(LongOverlaps(gaps1, gaps2, min_gap_minutes))

\* Monday gaps 09:00-10:30 and 10:00-11:00 with min_gap_minutes = 30: the result
\* holds 10:00 AM-10:30 AM of 30 minutes.
C4_Witness ==
    /\ pc = "done"
    /\ Len(all_gaps) = 2
    /\ min_gap_minutes = 30
    /\ \E i \in 1..Len(all_gaps[1]["Mon"]), j \in 1..Len(all_gaps[2]["Mon"]) :
          /\ Mins(all_gaps[1]["Mon"][i].start) = 9 * 60
          /\ Mins(all_gaps[1]["Mon"][i].end) = 10 * 60 + 30
          /\ Mins(all_gaps[2]["Mon"][j].start) = 10 * 60
          /\ Mins(all_gaps[2]["Mon"][j].end) = 11 * 60
    /\ \E k \in 1..Len(common_gaps["Mon"]) :
          common_gaps["Mon"][k] =
              [start |-> [hw |-> 2, hour |-> 10, min |-> 0, period |-> "AM"],
               end |-> [hw |-> 2, hour |-> 10, min |-> 30, period |-> "AM"],
               duration_minutes |-> 30]

\* C6 as claimed: with zero schedules every weekday is mapped to an empty list.
C6_EveryDayMappedToEmpty ==
    pc = "done" /\ all_gaps = <<>> =>
        \A day \in DaySet : day \in DOMAIN common_gaps /\ common_gaps[day] = <<>>

\* C6, amended: with zero schedules the call returns the empty mapping: no
\* weekday key, and a lookup with default [] gives an empty list for every weekday.
C6_EmptyMapping ==
    pc = "done" /\ all_gaps = <<>> =>
        /\ DOMAIN common_gaps = {}
        /\ \A day \in DaySet : GetDay(common_gaps, day) = <<>>

C6_Witness ==
    /\ pc = "done"
    /\ all_gaps = <<>>
    /\ common_gaps = <<>>

\* C7: with exactly one schedule the result is that schedule's gap mapping
\* unchanged, whatever min_gap_minutes is.
C7_SingleScheduleUnchanged ==
    pc = "done" /\ Len(all_gaps) = 1 => common_gaps = all_gaps[1]

\* One schedule with a Monday class, whose Tuesday gap of 720 minutes is shorter
\* than min_gap_minutes and is in the result all the same.
C7_Witness ==
    /\ pc = "done"
    /\ Len(all_gaps) = 1
    /\ all_gaps[1]["Mon"] = <<>>
    /\ Len(common_gaps["Tue"]) = 1
    /\ common_gaps["Tue"][1].duration_minutes < min_gap_minutes

(***************************************************************************)
(* Properties of identify_grid_structure and fill_missing_hours            *)
(***************************************************************************)

WholeHoursBetween(first, last) == {t \in first..last : t % 60 = 0}

\* C10: after identify_grid_structure the times map has an entry for every
\* whole hour lying between the first and the last detected time marker, and
\* each synthesized entry lies avg_pixels_per_hour below the entry of the
\* previous hour.
C10_EveryWholeHourFilled ==
    pc = "split" =>
        LET detected == DetectedTimes(text_regions)
            times == grid.times
            avg_pixels_per_hour == calculate_pixels_per_hour(detected)
            first == parse_time(detected[1].label)
            last == parse_time(detected[Len(detected)].label)
            synthesized == {i \in 1..Len(times) : times[i].label \notin Labels(detected)}
        IN  Len(detected) >= 2 =>
                /\ \A t \in WholeHoursBetween(first, last) :
                      \E i \in 1..Len(times) : parse_time(times[i].label) = t
                /\ \A i \in synthesized :
                      \E k \in 1..Len(times) :
                          /\ parse_time(times[k].label) = parse_time(times[i].label) - 60
                          /\ times[i].y = FracAdd(times[k].y, avg_pixels_per_hour)

(***************************************************************************)
(* Properties of split_overlapping_blocks                                  *)
(***************************************************************************)

\* The course fragments of text_regions whose center lies in the block.
CourseFragmentsIn(block) ==
    {k \in 1..Len(text_regions) :
        /\ text_regions[k].text.kind = "course"
        /\ text_regions[k].text.word # "ORIE"
        /\ block.x1 <= CenterX(text_regions[k].bbox)
        /\ CenterX(text_regions[k].bbox) <= block.x2
        /\ block.y1 <= CenterY(text_regions[k].bbox)
        /\ CenterY(text_regions[k].bbox) <= block.y2}

IsTrimCase(block) == block.was_split /\ Cardinality(CourseFragmentsIn(block)) = 1

\* How many blocks of split_blocks stand for colored_blocks[i].
BlocksFor(i) ==
    LET inside == CourseFragmentsIn(colored_blocks[i])
    IN  IF /\ ~IsTrimCase(colored_blocks[i])
           /\ Cardinality(inside) > 1
           /\ Cardinality({text_regions[k].text : k \in inside}) = 1
        THEN Cardinality(inside)
        ELSE 1

\* The position in split_blocks of the first block standing for colored_blocks[i].
RECURSIVE PositionOf(_)
PositionOf(i) == IF i = 1 THEN 1 ELSE PositionOf(i - 1) + BlocksFor(i - 1)

\* The class type of the one course of a block.
ClassTypeOf(block) ==
    LET k == CHOOSE k \in CourseFragmentsIn(block) : TRUE
    IN  find_class_type(CenterX(text_regions[k].bbox), CenterY(text_regions[k].bbox),
                        text_regions)

\* int(pixels_per_hour * 1.5) for a Lecture, int(pixels_per_hour * 1.0) otherwise.
ExpectedHeight(block) ==
    LET class_type == ClassTypeOf(block)
        sorted_times == SortByY(grid.times)
        pixels_per_hour == IF sorted_times # <<>>
                           THEN calculate_pixels_per_hour(sorted_times)
                           ELSE FracInt(DefaultPixelsPerHour)
    IN  IF class_type = "Lecture"
        THEN FracTrunc(FracMul(pixels_per_hour, Frac(3, 2)))
        ELSE FracTrunc(pixels_per_hour)

\* The top edge the trimmed block gets before clamping: the text center lies
\* int(0.2 * expected height) below it.
AnchoredTop(block) ==
    LET k == CHOOSE k \in CourseFragmentsIn(block) : TRUE
    IN  CenterY(text_regions[k].bbox) - ((ExpectedHeight(block) * 2) \div 10)

NoClamping(block) ==
    /\ AnchoredTop(block) >= block.y1
    /\ AnchoredTop(block) + ExpectedHeight(block) <= block.y2

\* C9: a block flagged was_split that holds exactly one course fragment is
\* replaced by a block that stays inside the original's vertical span, whose top
\* is not below its bottom, and whose height is at most the expected height of
\* its class type, and equal to it when nothing was clamped.
C9_TrimmedWithinBlock ==
    pc = "extract" =>
        \A i \in 1..Len(colored_blocks) :
            LET block == colored_blocks[i]
            IN  IsTrimCase(block) =>
                    LET trimmed == split_blocks[PositionOf(i)]
                        height == trimmed.y2 - trimmed.y1
                    IN  /\ trimmed.y1 >= block.y1
                        /\ trimmed.y2 <= block.y2
                        /\ trimmed.y1 <= trimmed.y2
                        /\ height <= ExpectedHeight(block)
                        /\ NoClamping(block) => height = ExpectedHeight(block)

\* A was_split block with one tutorial or laboratory course was trimmed on both
\* edges to its expected height.
C9_Witness ==
    /\ pc = "extract"
    /\ \E i \in 1..Len(colored_blocks) :
          LET block == colored_blocks[i]
          IN  /\ IsTrimCase(block)
              /\ NoClamping(block)
              /\ ExpectedHeight(block) > 0
              /\ split_blocks[PositionOf(i)].y1 > block.y1
              /\ split_blocks[PositionOf(i)].y2 < block.y2
              /\ ClassTypeOf(block) # "Lecture"

(***************************************************************************)
(* Properties of extract_classes                                           *)
(***************************************************************************)

Extracted == pc \in {"done", "IndexError", "ValueError"}

OrieText == CourseText("ORIE", <<3, 3, 0, 0>>)

IsOrie(region) == region.text = OrieText

NotOrie(region) == ~IsOrie(region)

InBlock(region, block) ==
    /\ block.x1 <= CenterX(region.bbox) /\ CenterX(region.bbox) <= block.x2
    /\ block.y1 <= CenterY(region.bbox) /\ CenterY(region.bbox) <= block.y2

\* C11: a fragment reading "ORIE 3300" never yields a class entry, and
\* split_overlapping_blocks treats the blocks as if the fragment were absent.
C11_OrieNeverACourse ==
    /\ Extracted => \A i \in 1..Len(classes) : classes[i].course # OrieText
    /\ (pc = "extract" \/ Extracted) =>
          split_blocks = split_overlapping_blocks(SelectSeq(text_regions, NotOrie),
                                                  colored_blocks, SortByY(grid.times))

\* An "ORIE 3300" fragment with a day and a start time lies in a was_split block
\* next to one other course: the block was trimmed and one entry was emitted.
C11_Witness ==
    /\ pc = "done"
    /\ Len(classes) = 1
    /\ \E i \in 1..Len(text_regions), k \in 1..Len(colored_blocks) :
          /\ IsOrie(text_regions[i])
          /\ text_regions[i].confidence > ConfidenceThreshold
          /\ InBlock(text_regions[i], colored_blocks[k])
          /\ colored_blocks[k].was_split
          /\ find_closest_day(CenterX(text_regions[i].bbox), grid.days) # "None"
    /\ split_blocks # colored_blocks

\* C12: when the grid has no time marker, extraction ends in the condition
\* GridInferenceFailed: it neither returns a list nor raises another error.
C12_EmptyGridSignalled ==
    (Extracted /\ grid.times = <<>>) => pc = "GridInferenceFailed"

\* Is some day column less than 150 pixels from the fragment's horizontal center?
HasDay(region) ==
    \E k \in 1..Len(grid.days) : Abs(CenterX(region.bbox) - grid.days[k].x) < DayThreshold

Matches(region) ==
    /\ region.text.kind = "course"
    /\ region.text.word # "ORIE"
    /\ region.confidence > ConfidenceThreshold

Resolved(region) == Matches(region) /\ HasDay(region)

\* C13: the entries are, in order, those of the fragments that match the course
\* pattern with confidence above 0.4 and have a day column within 150 pixels; a
\* course fragment without such a day is dropped with no entry and no error, and
\* the other fragments are still processed.
C13_UnresolvedDroppedSilently ==
    Extracted =>
        LET resolved == SelectSeq(text_regions, Resolved)
        IN  /\ \A i \in 1..Len(classes) :
                  /\ i <= Len(resolved)
                  /\ classes[i].course = resolved[i].text
                  /\ \E k \in 1..Len(grid.days) :
                        /\ grid.days[k].day = classes[i].day
                        /\ Abs(CenterX(resolved[i].bbox) - grid.days[k].x) < DayThreshold
            /\ pc = "done" => Len(classes) = Len(resolved)
            /\ (\E i \in 1..Len(text_regions) :
                    Matches(text_regions[i]) /\ ~HasDay(text_regions[i]))
                  => pc = "done"

(***************************************************************************)
(* Properties of get_cached_classes                                        *)
(***************************************************************************)

\* What a step of caller p may do when it must stay away from the cache file.
LeavesCacheAlone(p) ==
    /\ files' = files
    /\ calls'[p].pc \notin {"load", "open", "dump"}

\* C14: a call goes on to return the cached result only if use_cache is true, the
\* cache file exists and its mtime is strictly newer than the image's; otherwise
\* it extracts again and returns what it extracted; with use_cache false its steps
\* neither read nor write the cache file.
C14_CachedOnlyIfNewer ==
    [][\A p \in Callers :
          LET before == calls[p]
              after == calls'[p]
              cache == files[CachePath(before.schedule_path)]
              image == files[before.schedule_path]
          IN  /\ (before.pc = "check" /\ after # before) =>
                    IF before.use_cache /\ cache.exists /\ cache.mtime > image.mtime
                    THEN after.pc = "load"
                    ELSE after.pc = "extract"
              /\ (before.pc = "load" /\ after.pc = "returned") =>
                    after.result = cache.content
              /\ (before.pc \in {"extract", "dump"} /\ after.pc = "returned") =>
                    /\ after.classes.kind = "classes"
                    /\ after.result = after.classes
              /\ (after.pc = "returned" /\ before.pc # "returned") =>
                    before.pc \in {"load", "extract", "dump"}
              /\ (~before.use_cache /\ after # before /\ after.pc # "check") =>
                    LeavesCacheAlone(p)
      ]_vars

\* A call with use_cache true has returned the cached list without extracting.
C14_Witness ==
    \E p \in Callers :
        /\ calls[p].pc = "returned"
        /\ calls[p].use_cache
        /\ calls[p].classes = NoClasses
        /\ calls[p].result.kind = "classes"

\* C15: no call reads a partially written cache file: no call fails while it
\* loads the cache, and every call that returns gives a complete class list.
C15_NoPartialRead ==
    \A p \in DOMAIN calls :
        /\ calls[p].pc # "EOFError"
        /\ calls[p].pc = "returned" => calls[p].result.kind = "classes"

(***************************************************************************)
(* Properties of interpolate_time                                          *)
(***************************************************************************)

\* The pairs of neighbouring markers around the probed position.
ProbeBrackets ==
    LET sorted_times == SortByY(grid.times)
    IN  {i \in 1..(Len(sorted_times) - 1) :
            /\ FracLeq(sorted_times[i].y, FracInt(probe_y))
            /\ FracLeq(FracInt(probe_y), sorted_times[i + 1].y)}

\* The minute of the hour the linear interpolation between markers i and i + 1
\* gives at the probed position, and the hour it falls in (minutes after midnight).
LinearTime(i) ==
    LET sorted_times == SortByY(grid.times)
        a == sorted_times[i]
        b == sorted_times[i + 1]
        span == FracSub(b.y, a.y)
        elapsed == IF span = FracInt(0) THEN FracInt(0)
                   ELSE FracDiv(FracMul(FracSub(FracInt(probe_y), a.y),
                                        FracInt(parse_time(b.label) - parse_time(a.label))),
                                span)
        total == FracAdd(FracInt(parse_time(a.label)), elapsed)
    IN  total[1] \div total[2]

\* C16: interpolate_time returns a time on a :00 or :30 boundary: between two
\* markers the interpolated minute m gives :00 for m < 15, :30 for 15 <= m < 45
\* and :00 of the next hour for m >= 45; outside the markers it returns the time
\* of the nearest boundary marker.
C16_StartOnAnchor ==
    pc = "done" =>
        LET sorted_times == SortByY(grid.times)
            got == parse_time(probe_time)
        IN  /\ probe_time.min \in {0, 30}
            /\ ProbeBrackets # {} =>
                  LET i == CHOOSE i \in ProbeBrackets : \A j \in ProbeBrackets : i <= j
                      m == LinearTime(i) % 60
                      hour == LinearTime(i) - m
                  IN  /\ m < 15 => got = hour % 1440
                      /\ (15 <= m /\ m < 45) => got = (hour + 30) % 1440
                      /\ m >= 45 => got = (hour + 60) % 1440
            /\ ProbeBrackets = {} =>
                  IF FracLess(FracInt(probe_y), sorted_times[1].y)
                  THEN got = parse_time(sorted_times[1].label)
                  ELSE got = parse_time(sorted_times[Len(sorted_times)].label)

(***************************************************************************)
(* Properties of the durations extract_classes gives                       *)
(***************************************************************************)

\* The first block of split_blocks around the center of the fragment, 0 if none.
BlockAround(region) ==
    LET around == {k \in 1..Len(split_blocks) : InBlock(region, split_blocks[k])}
    IN  IF around = {} THEN 0 ELSE CHOOSE k \in around : \A j \in around : k <= j

GridPixelsPerHour == calculate_pixels_per_hour(SortByY(grid.times))

\* height / pixels_per_hour against the thresholds 1.0, 1.6 and 2.5, without
\* dividing: height * 10 * d against 10 * n, 16 * n and 25 * n for n / d pixels.
DurationByHeight(height) ==
    LET n == GridPixelsPerHour[1]
        d == GridPixelsPerHour[2]
    IN  IF height * 10 * d < 10 * n THEN 60
        ELSE IF height * 10 * d < 16 * n THEN 90
        ELSE IF height * 10 * d < 25 * n THEN 120
        ELSE 180

DurationByType(class_type) == IF class_type = "Lecture" THEN 90 ELSE 60

EntryLasts(entry, duration) ==
    (parse_time(entry.end_time) - parse_time(entry.start_time)) % 1440 = duration

EntryStartsAt(entry, y) ==
    entry.start_time = interpolate_time(y, SortByY(grid.times))

\* C17: an entry whose fragment has a containing block lasts 60, 90, 120 or 180
\* minutes by the block's height in hours and starts at the time of the block's
\* top edge; an entry without a block lasts 90 minutes for a Lecture and 60
\* otherwise and starts at the time of the fragment's top edge.
C17_DurationFromBlockHeight ==
    pc = "done" =>
        LET resolved == SelectSeq(text_regions, Resolved)
        IN  \A i \in 1..Len(classes) :
                LET k == BlockAround(resolved[i])
                IN  IF k # 0
                    THEN /\ EntryLasts(classes[i],
                                       DurationByHeight(split_blocks[k].y2 - split_blocks[k].y1))
                         /\ EntryStartsAt(classes[i], split_blocks[k].y1)
                    ELSE /\ EntryLasts(classes[i], DurationByType(classes[i].type))
                         /\ EntryStartsAt(classes[i], resolved[i].bbox[2])

\* C17 with the case the thresholds cannot decide: when pixels_per_hour is 0 an
\* entry with a containing block lasts 90 minutes for a Lecture and 60 otherwise.
C17_DurationWithFallback ==
    pc = "done" =>
        LET resolved == SelectSeq(text_regions, Resolved)
        IN  \A i \in 1..Len(classes) :
                LET k == BlockAround(resolved[i])
                IN  IF k # 0
                    THEN /\ EntryLasts(classes[i],
                                IF FracLess(FracInt(0), GridPixelsPerHour)
                                THEN DurationByHeight(split_blocks[k].y2 - split_blocks[k].y1)
                                ELSE DurationByType(classes[i].type))
                         /\ EntryStartsAt(classes[i], split_blocks[k].y1)
                    ELSE /\ EntryLasts(classes[i], DurationByType(classes[i].type))
                         /\ EntryStartsAt(classes[i], resolved[i].bbox[2])

\* An entry was emitted from a block exactly one hour high: it lasts 90 minutes.
C17_Witness ==
    /\ pc = "done"
    /\ FracLess(FracInt(0), GridPixelsPerHour)
    /\ LET resolved == SelectSeq(text_regions, Resolved)
       IN  \E i \in 1..Len(classes) :
              /\ BlockAround(resolved[i]) # 0
              /\ LET block == split_blocks[BlockAround(resolved[i])]
                 IN  FracInt(block.y2 - block.y1) = GridPixelsPerHour
              /\ EntryLasts(classes[i], 90)

(***************************************************************************)
(* Properties of the same-text split of split_overlapping_blocks           *)
(***************************************************************************)

\* Fragment a comes before fragment b in the order of the vertical centers
\* (fragments at the same height in the order of text_regions).
Above(a, b) ==
    \/ CenterY(text_regions[a].bbox) < CenterY(text_regions[b].bbox)
    \/ CenterY(text_regions[a].bbox) = CenterY(text_regions[b].bbox) /\ a < b

\* The j-th fragment of the block from the top.
FromTop(block, j) ==
    CHOOSE a \in CourseFragmentsIn(block) :
        Cardinality({b \in CourseFragmentsIn(block) : Above(b, a)}) = j - 1

\* The midpoint between the bottom edge of the j-th fragment and the top edge of
\* the next one.
Boundary(block, j) ==
    (text_regions[FromTop(block, j)].bbox[4]
        + text_regions[FromTop(block, j + 1)].bbox[2]) \div 2

SameText(block) ==
    \A a, b \in CourseFragmentsIn(block) : text_regions[a].text = text_regions[b].text

\* C18: a block with n > 1 course fragments of identical text is replaced by n
\* sub-bands of its horizontal extent, in the order of the fragments' vertical
\* centers, from the block's top to its bottom, neighbours meeting at the midpoint
\* between the upper fragment's bottom and the lower fragment's top; a block
\* whose fragments differ in text is kept as it is.
C18_SameTextSplitIntoBands ==
    (pc = "extract" \/ Extracted) =>
        /\ Len(split_blocks) = PositionOf(Len(colored_blocks) + 1) - 1
        /\ \A i \in 1..Len(colored_blocks) :
              LET block == colored_blocks[i]
                  n == Cardinality(CourseFragmentsIn(block))
                  first == PositionOf(i)
              IN  n > 1 =>
                    IF SameText(block)
                    THEN /\ PositionOf(i + 1) = first + n
                         /\ \A j \in 1..n :
                               LET band == split_blocks[first + j - 1]
                               IN  /\ band.x1 = block.x1 /\ band.x2 = block.x2
                                   /\ band.y1 = IF j = 1 THEN block.y1
                                                ELSE Boundary(block, j - 1)
                                   /\ band.y2 = IF j = n THEN block.y2
                                                ELSE Boundary(block, j)
                    ELSE /\ PositionOf(i + 1) = first + 1
                         /\ split_blocks[first] = block

\* A block with three fragments of the same text, not listed from top to bottom,
\* was split into three bands.
C18_Witness ==
    /\ pc = "extract"
    /\ \E i \in 1..Len(colored_blocks) :
          /\ Cardinality(CourseFragmentsIn(colored_blocks[i])) = 3
          /\ SameText(colored_blocks[i])
          /\ \E a, b \in CourseFragmentsIn(colored_blocks[i]) : a < b /\ Above(b, a)
    /\ Len(split_blocks) >= 3

(***************************************************************************)
(* Properties of upload_schedule                                           *)
(***************************************************************************)

\* C19: concurrent uploads do not interfere: each request extracts from the
\* image it uploaded, never fails for a missing file, and its temporary file
\* holds its image during the whole of its processing.
C19_UploadsIndependent ==
    \A p \in DOMAIN uploads :
        /\ uploads[p].blocks_from \in {0, p}
        /\ uploads[p].text_from \in {0, p}
        /\ ~uploads[p].failed
        /\ uploads[p].pc \in {"detect", "ocr"} => temp_files[uploads[p].temp_path] = p


ClassesOn(day) ==
    {i \in 1..Len(classes) : classes[i].day = day}

GapOverlapsClass(gap, class) ==
    /\ Mins(gap.start) < Mins(class.end_time)
    /\ Mins(class.start_time) < Mins(gap.end)

\* C20: whatever the class entries are (start_time < end_time, overlapping or
\* nested entries included), no gap returned for a day overlaps the
\* [start_time, end_time) interval of a class held on that day.
C20_GapsAvoidClasses ==
    pc = "done" =>
        \A day \in DOMAIN gaps_by_day :
            \A g \in 1..Len(gaps_by_day[day]) :
                \A i \in ClassesOn(day) :
                    ~GapOverlapsClass(gaps_by_day[day][g], classes[i])

(***************************************************************************)
(* Properties of the fold of find_common_free_times (SpecFold)             *)
(***************************************************************************)

\* The half-hour grid every gap of the model starts and ends on; an interval
\* lying in a gap of every schedule extends to one with both ends on the grid.
TimePoints == {Mins(DayStart) + 30 * k : k \in 0..24}

\* The gaps of a list as (start, end) pairs of minutes.
Spans(gaps) ==
    {<<Mins(gaps[g].start), Mins(gaps[g].end)>> : g \in 1..Len(gaps)}

Within(from, to, spans) ==
    \E span \in spans : span[1] <= from /\ to <= span[2]

FreeForAll(from, to, schedules) ==
    \A k \in DOMAIN schedules : Within(from, to, schedules[k])

\* C21: with one schedule or more, every returned gap lies within a gap of
\* every schedule on that day, and every interval of at least min_gap_minutes
\* that lies within a gap of every schedule lies within a returned gap: no fold
\* step loses it.
C21_SoundAndComplete ==
    pc = "done" /\ Len(all_gaps) >= 1 =>
        \A day \in DaySet :
            /\ day \in DOMAIN common_gaps
            /\ LET returned == Spans(common_gaps[day])
                   schedules == [k \in 1..Len(all_gaps) |-> Spans(all_gaps[k][day])]
               IN  /\ \A span \in returned : FreeForAll(span[1], span[2], schedules)
                   /\ \A from, to \in TimePoints :
                         (from <= to /\ to - from >= min_gap_minutes
                              /\ FreeForAll(from, to, schedules))
                             => Within(from, to, returned)

\* Three different schedules, each with several Monday gaps; the fold keeps two
\* common gaps and drops an overlap of the first two schedules at the third.
C21_Witness ==
    /\ pc = "done"
    /\ Len(all_gaps) = 3
    /\ \A k \in 1..3 : Len(all_gaps[k]["Mon"]) >= 2
    /\ all_gaps[1] # all_gaps[2] /\ all_gaps[2] # all_gaps[3] /\ all_gaps[1] # all_gaps[3]
    /\ Len(common_gaps["Mon"]) >= 2
    /\ Len(common_gaps["Mon"])
          < Len(find_common_free_times(<<all_gaps[1], all_gaps[2]>>, min_gap_minutes)["Mon"])

(***************************************************************************)
(* Containment across split_overlapping_blocks (SpecExtract)               *)
(***************************************************************************)

InSomeBlock(region, blocks) ==
    \E i \in 1..Len(blocks) : InBlock(region, blocks[i])

Inverted(block) == block.y1 > block.y2

\* C22: every course-code fragment whose center lies in a colored block has its
\* center in a block of split_blocks with y1 <= y2, so extract_classes finds a
\* containing block for it.
C22_ContainmentPreserved ==
    (pc = "extract" \/ Extracted) =>
        \A k \in 1..Len(text_regions) :
            (CoursePatternFinds(text_regions[k].text)
                 /\ InSomeBlock(text_regions[k], colored_blocks))
            => /\ \E j \in 1..Len(split_blocks) :
                      /\ ~Inverted(split_blocks[j])
                      /\ InBlock(text_regions[k], split_blocks[j])
               /\ ContainingBlock(CenterX(text_regions[k].bbox),
                                   CenterY(text_regions[k].bbox), split_blocks) # 0

\* Two fragments of one text in a block were split into a first band whose
\* bottom lies above its top and a second band that holds both centers.
C22_Witness ==
    /\ pc = "extract"
    /\ Len(colored_blocks) = 1
    /\ Cardinality(CourseFragmentsIn(colored_blocks[1])) = 2
    /\ Len(split_blocks) = 2
    /\ Inverted(split_blocks[1])
    /\ \A k \in CourseFragmentsIn(colored_blocks[1]) :
          InBlock(text_regions[k], split_blocks[2])

(***************************************************************************)
(* Frame of get_cached_classes (SpecCachePaths)                            *)
(***************************************************************************)

\* C23: whatever schedule_path is, a call with use_cache true writes to a
\* cache file that is another file than the image: the image it was asked to
\* read is never overwritten.
C23_ImageNeverWritten ==
    /\ \A path \in SchedulePaths \cap DOMAIN files :
          files[path] = File(1, "image", 1)
    /\ \A p \in DOMAIN calls :
          calls[p].pc \in {"open", "dump"} =>
              CachePath(calls[p].schedule_path) # calls[p].schedule_path

(***************************************************************************)
(* The labels of the times map (SpecGrid)                                  *)
(***************************************************************************)

ValidLabel(label) ==
    /\ label.hour \in 1..12
    /\ label.min \in 0..59
    /\ label.period \in {"AM", "PM"}
    /\ StrptimeAccepts(label)

\* C24: every label identify_grid_structure puts in the times map is a 12-hour
\* time (hour 1..12, minute 00..59, AM or PM) that the minutes conversion
\* parses, and grid inference does not fail on a malformed label, whatever the
\* text OCR returned.
C24_GridLabelsValid ==
    /\ pc # "ValueError"
    /\ pc = "split" => \A i \in 1..Len(grid.times) : ValidLabel(grid.times[i].label)


=========================================================================
